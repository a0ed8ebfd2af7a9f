---------------------------- MODULE Manifest_proofs ----------------------------
(***************************************************************************)
(* Theorems about "manifest summarize", for any snapshots, cadences and    *)
(* counts, and about "manifest extract-queries", for any scripts: both as  *)
(* Manifest runs them.                                                     *)
(***************************************************************************)
EXTENDS Manifest, FiniteSetTheorems, SequenceTheorems, TLAPS

-----------------------------------------------------------------------------
(* The order of snapshots, and what sorting by it returns *)

\* sortSnapshotsNewestFirst compares by a strict total order.
LEMMA StrictOrder ==
  /\ \A s \in Snapshots : ~NewestFirst(s, s)
  /\ \A s, t, u \in Snapshots :
       NewestFirst(s, t) /\ NewestFirst(t, u) => NewestFirst(s, u)
  /\ \A s, t \in Snapshots : s # t => NewestFirst(s, t) \/ NewestFirst(t, s)
BY RetentionAssumption DEF RetentionAssumption, NewestFirst

LEMMA Finite ==
  ASSUME NEW S \in SUBSET Snapshots
  PROVE  IsFiniteSet(S) /\ Cardinality(S) \in Nat
BY RetentionAssumption, FS_Subset, FS_CardinalityType DEF RetentionAssumption

\* Every set of snapshots can be sorted: the place of one is the number of
\* those that come before it.
LEMMA SortedIsSorted ==
  ASSUME NEW S \in SUBSET Snapshots
  PROVE  /\ Sorted(S) \in [1 .. Cardinality(S) -> S]
         /\ \A i, j \in 1 .. Cardinality(S) :
              i < j => NewestFirst(Sorted(S)[i], Sorted(S)[j])
<1> DEFINE n == Cardinality(S)
           B(s) == {t \in S : NewestFirst(t, s)}
           r == [s \in S |-> Cardinality(B(s)) + 1]
<1>1. IsFiniteSet(S) /\ n \in Nat
  BY Finite
<1>2. ASSUME NEW s \in S
      PROVE  IsFiniteSet(B(s)) /\ Cardinality(B(s)) \in Nat /\ Cardinality(B(s)) < n
  <2>1. B(s) \in SUBSET S /\ B(s) # S
    BY StrictOrder
  <2> HIDE DEF B
  <2>2. IsFiniteSet(B(s)) /\ Cardinality(B(s)) <= n /\ Cardinality(B(s)) # n
    BY <1>1, <2>1, FS_Subset
  <2>3. Cardinality(B(s)) \in Nat
    BY <2>2, FS_CardinalityType
  <2> QED BY <1>1, <2>2, <2>3
<1>3. r \in [S -> 1 .. n]
  BY <1>1, <1>2
<1>4. ASSUME NEW s \in S, NEW t \in S, NewestFirst(s, t)
      PROVE  r[s] < r[t]
  <2>1. B(s) \in SUBSET B(t) /\ B(s) # B(t)
    BY <1>4, StrictOrder
  <2> HIDE DEF B
  <2>2. Cardinality(B(s)) <= Cardinality(B(t)) /\ Cardinality(B(s)) # Cardinality(B(t))
    BY <1>2, <2>1, FS_Subset
  <2> QED BY <1>2, <2>2
<1> HIDE DEF r
<1>5. r \in Injection(S, 1 .. n)
  <2> SUFFICES ASSUME NEW s \in S, NEW t \in S, s # t PROVE r[s] # r[t]
    BY <1>3 DEF Injection, IsInjective
  <2> r[s] \in 1 .. n /\ r[t] \in 1 .. n
    BY <1>3
  <2>1. CASE NewestFirst(s, t)
    BY <2>1, <1>4
  <2>2. CASE NewestFirst(t, s)
    BY <2>2, <1>4
  <2> QED BY <2>1, <2>2, StrictOrder
<1>6. r \in Surjection(S, 1 .. n)
  <2>1. IsFiniteSet(1 .. n) /\ Cardinality(1 .. n) = n
    BY <1>1, FS_Interval
  <2> QED BY <1>5, <2>1, FS_Injection
<1> DEFINE q == [i \in 1 .. n |-> CHOOSE s \in S : r[s] = i]
<1>7. ASSUME NEW i \in 1 .. n PROVE q[i] \in S /\ r[q[i]] = i
  BY <1>6 DEF Surjection
<1>8. q \in [1 .. n -> S]
  BY <1>7
<1> HIDE DEF q
<1>9. ASSUME NEW i \in 1 .. n, NEW j \in 1 .. n, i < j
      PROVE  NewestFirst(q[i], q[j])
  <2>1. q[i] \in S /\ q[j] \in S /\ r[q[i]] = i /\ r[q[j]] = j
    BY <1>7
  <2>2. q[i] # q[j]
    BY <2>1, <1>9
  <2>3. ~NewestFirst(q[j], q[i])
    BY <2>1, <1>4, <1>9
  <2> QED BY <2>1, <2>2, <2>3, StrictOrder
<1> QED
  BY <1>8, <1>9 DEF Sorted

LEMMA SortedHoldsAll ==
  ASSUME NEW S \in SUBSET Snapshots
  PROVE  /\ Sorted(S) \in Seq(S) /\ Len(Sorted(S)) = Cardinality(S)
         /\ DOMAIN Sorted(S) = 1 .. Cardinality(S)
         /\ Sorted(S) \in Injection(1 .. Cardinality(S), S)
         /\ Elements(Sorted(S)) = S
<1> DEFINE n == Cardinality(S)
           q == Sorted(S)
<1> IsFiniteSet(S) /\ n \in Nat
  BY Finite
<1>1. /\ q \in [1 .. n -> S]
      /\ \A i, j \in 1 .. n : i < j => NewestFirst(q[i], q[j])
  BY SortedIsSorted
<1> HIDE DEF q, n
<1>2. q \in Seq(S) /\ Len(q) = n /\ DOMAIN q = 1 .. n
  BY <1>1, SeqDef, LenProperties
<1>3. q \in Injection(1 .. n, S)
  <2> SUFFICES ASSUME NEW i \in 1 .. n, NEW j \in 1 .. n, i # j PROVE q[i] # q[j]
    BY <1>1 DEF Injection, IsInjective
  <2> q[i] \in Snapshots /\ q[j] \in Snapshots
    BY <1>1
  <2> i < j \/ j < i
    OBVIOUS
  <2> QED BY <1>1, StrictOrder
<1>4. IsFiniteSet(1 .. n) /\ Cardinality(1 .. n) = n
  BY FS_Interval
<1>5. q \in Surjection(1 .. n, S)
  BY <1>3, <1>4, FS_Injection DEF n
<1>6. Elements(q) = S
  BY <1>1, <1>5 DEF Elements, Surjection
<1> QED BY <1>2, <1>3, <1>6 DEF q, n

\* Before the snapshot at place i there are i - 1 newer ones.
LEMMA PlaceCountsNewer ==
  ASSUME NEW S \in SUBSET Snapshots, NEW i \in 1 .. Cardinality(S)
  PROVE  Cardinality({t \in S : NewestFirst(t, Sorted(S)[i])}) = i - 1
<1> DEFINE n == Cardinality(S)
           q == Sorted(S)
           N == {t \in S : NewestFirst(t, q[i])}
           f == [j \in 1 .. i - 1 |-> q[j]]
<1>0. n \in Nat
  BY Finite
<1>1. /\ q \in [1 .. n -> S]
      /\ \A j, k \in 1 .. n : j < k => NewestFirst(q[j], q[k])
      /\ Elements(q) = S
      /\ DOMAIN q = 1 .. n
      /\ \A j, k \in 1 .. n : q[j] = q[k] => j = k
  BY SortedIsSorted, SortedHoldsAll DEF Injection, IsInjective
<1> HIDE DEF q, n
<1>2. \A j \in 1 .. i - 1 : j \in 1 .. n /\ f[j] = q[j] /\ q[j] \in N
  BY <1>0, <1>1 DEF n
<1>3. f \in [1 .. i - 1 -> N]
  BY <1>2
<1>4. \A t \in N : \E j \in 1 .. i - 1 : f[j] = t
  <2> SUFFICES ASSUME NEW t \in N PROVE \E j \in 1 .. i - 1 : f[j] = t
    OBVIOUS
  <2>1. PICK j \in 1 .. n : q[j] = t
    BY <1>1 DEF Elements
  <2>2. i \in 1 .. n /\ q[i] \in S /\ q[j] \in S /\ NewestFirst(q[j], q[i])
    BY <1>1, <2>1 DEF n
  <2>3. ~NewestFirst(q[i], q[j]) /\ q[i] # q[j]
    BY <2>2, StrictOrder
  <2>4. j < i
    BY <1>0, <1>1, <2>2, <2>3
  <2>5. j \in 1 .. i - 1
    BY <2>4, <1>0
  <2> QED BY <2>1, <2>5
<1>5. \A j, k \in 1 .. i - 1 : f[j] = f[k] => j = k
  BY <1>1, <1>2
<1> HIDE DEF f, N
<1>6. f \in Bijection(1 .. i - 1, N)
  BY <1>3, <1>4, <1>5 DEF Bijection, Injection, Surjection, IsInjective
<1>7. i - 1 \in Nat
  BY <1>0
<1>8. Cardinality(N) = i - 1
  BY <1>6, <1>7, FS_CountingElements DEF ExistsBijection
<1> QED BY <1>8 DEF N, q

-----------------------------------------------------------------------------
(* What the policy wants *)

OfCadence(S, c) == {s \in S : s.cadence = c}

LEMMA Older ==
  ASSUME NEW S \in SUBSET Snapshots, NEW s \in Snapshots
  PROVE  /\ NewerOfSameCadence(S, s) =
              {t \in OfCadence(S, s.cadence) : NewestFirst(t, s)}
         /\ IsFiniteSet(NewerOfSameCadence(S, s))
         /\ Cardinality(NewerOfSameCadence(S, s)) \in Nat
<1>1. NewerOfSameCadence(S, s) = {t \in OfCadence(S, s.cadence) : NewestFirst(t, s)}
  BY DEF NewerOfSameCadence, OfCadence, NewestFirst
<1>2. NewerOfSameCadence(S, s) \in SUBSET Snapshots
  BY DEF NewerOfSameCadence
<1> QED BY <1>1, <1>2, Finite

\* What is unwanted stays unwanted, whatever arrives.
LEMMA WantedOnlyShrinks ==
  ASSUME NEW T \in SUBSET Snapshots, NEW S \in SUBSET T
  PROVE  Wanted(T) \cap S \subseteq Wanted(S)
<1> SUFFICES ASSUME NEW s \in S, s \in Wanted(T) PROVE s \in Wanted(S)
  OBVIOUS
<1>1. s.cadence \in Cadences /\ KeepCount[s.cadence] \in Nat
  BY RetentionAssumption DEF RetentionAssumption, Wanted
<1>2. NewerOfSameCadence(S, s) \in SUBSET NewerOfSameCadence(T, s)
  BY DEF NewerOfSameCadence
<1>3. Cardinality(NewerOfSameCadence(S, s)) <= Cardinality(NewerOfSameCadence(T, s))
  BY <1>2, Older, FS_Subset
<1>4. Cardinality(NewerOfSameCadence(T, s)) < KeepCount[s.cadence]
  BY DEF Wanted
<1>5. /\ Cardinality(NewerOfSameCadence(S, s)) \in Nat
      /\ Cardinality(NewerOfSameCadence(T, s)) \in Nat
  BY Older
<1>6. Cardinality(NewerOfSameCadence(S, s)) < KeepCount[s.cadence]
  BY <1>1, <1>3, <1>4, <1>5
<1> QED BY <1>1, <1>6 DEF Wanted

\* The first snapshots of a cadence are the wanted ones, the rest are not.
LEMMA SplitByCount ==
  ASSUME NEW S \in SUBSET Snapshots, NEW c \in Cadences
  PROVE  LET q == Sorted(OfCadence(S, c)) IN
         /\ First(q, KeepCount[c]) \in Seq(Snapshots)
         /\ After(q, KeepCount[c]) \in Seq(Snapshots)
         /\ Elements(First(q, KeepCount[c])) = OfCadence(Wanted(S), c)
         /\ Elements(After(q, KeepCount[c])) = OfCadence(S, c) \ Wanted(S)
<1> DEFINE C == OfCadence(S, c)
           q == Sorted(C)
           n == Cardinality(C)
           k == KeepCount[c]
<1>0. C \in SUBSET Snapshots /\ n \in Nat /\ k \in Nat
  BY Finite, RetentionAssumption DEF RetentionAssumption, OfCadence
<1>1. q \in Seq(C) /\ q \in Seq(Snapshots) /\ Len(q) = n /\ Elements(q) = C
      /\ DOMAIN q = 1 .. n
  BY <1>0, SortedHoldsAll, SeqMonotonic
<1>2. \A i \in 1 .. n : q[i] \in C
  BY <1>1 DEF Elements
<1>3. \A i \in 1 .. n : q[i] \in Wanted(S) <=> i <= k
  <2> SUFFICES ASSUME NEW i \in 1 .. n PROVE q[i] \in Wanted(S) <=> i <= k
    OBVIOUS
  <2>1. q[i] \in S /\ q[i] \in Snapshots /\ q[i].cadence = c
    BY <1>2 DEF OfCadence
  <2>2. NewerOfSameCadence(S, q[i]) = {t \in C : NewestFirst(t, q[i])}
    BY <2>1, Older
  <2>3. Cardinality(NewerOfSameCadence(S, q[i])) = i - 1
    BY <1>0, <2>2, PlaceCountsNewer
  <2> QED BY <1>0, <2>1, <2>3 DEF Wanted
<1> HIDE DEF C, q, n, k
<1>4. /\ First(q, k) \in Seq(Snapshots)
      /\ Len(First(q, k)) = IF k < n THEN k ELSE n
      /\ \A i \in 1 .. (IF k < n THEN k ELSE n) : First(q, k)[i] = q[i]
  <2> DEFINE m == IF k < n THEN k ELSE n
  <2>1. m \in 0 .. n /\ First(q, k) = SubSeq(q, 1, m)
    BY <1>0, <1>1 DEF First
  <2> HIDE DEF m
  <2>2. \A i \in 1 .. m : q[i] \in Snapshots
    BY <2>1, <1>0, <1>2
  <2>3. /\ SubSeq(q, 1, m) \in Seq(Snapshots)
        /\ Len(SubSeq(q, 1, m)) = IF 1 <= m THEN m - 1 + 1 ELSE 0
        /\ \A i \in 1 .. m - 1 + 1 : SubSeq(q, 1, m)[i] = q[1 + i - 1]
    BY <2>1, <2>2, SubSeqProperties
  <2>4. Len(SubSeq(q, 1, m)) = m /\ \A i \in 1 .. m : SubSeq(q, 1, m)[i] = q[i]
    BY <1>0, <2>1, <2>3
  <2> QED BY <2>1, <2>3, <2>4 DEF m
<1>5. /\ After(q, k) \in Seq(Snapshots)
      /\ Len(After(q, k)) = IF k < n THEN n - k ELSE 0
      /\ \A i \in 1 .. n - k : After(q, k)[i] = q[k + i]
  <2>1. \A i \in k + 1 .. n : q[i] \in Snapshots
    BY <1>0, <1>2
  <2>2. /\ SubSeq(q, k + 1, n) \in Seq(Snapshots)
        /\ Len(SubSeq(q, k + 1, n)) = IF k + 1 <= n THEN n - (k + 1) + 1 ELSE 0
        /\ \A i \in 1 .. n - (k + 1) + 1 : SubSeq(q, k + 1, n)[i] = q[k + 1 + i - 1]
    BY <1>0, <2>1, SubSeqProperties
  <2> QED BY <1>0, <1>1, <2>2 DEF After
<1>6. Elements(First(q, k)) = OfCadence(Wanted(S), c)
  <2>1. ASSUME NEW s \in Elements(First(q, k)) PROVE s \in OfCadence(Wanted(S), c)
    <3>1. PICK i \in DOMAIN First(q, k) : s = First(q, k)[i]
      BY DEF Elements
    <3>2. i \in 1 .. n /\ i <= k /\ s = q[i]
      BY <1>0, <1>4, <3>1, LenProperties
    <3> QED BY <1>2, <1>3, <3>2 DEF C, OfCadence
  <2>2. ASSUME NEW s \in OfCadence(Wanted(S), c) PROVE s \in Elements(First(q, k))
    <3>1. s \in C /\ s \in Wanted(S)
      BY DEF C, OfCadence, Wanted
    <3>2. PICK i \in 1 .. n : s = q[i]
      BY <1>1, <3>1 DEF Elements
    <3>3. i <= k
      BY <1>3, <3>1, <3>2
    <3>4. i \in DOMAIN First(q, k) /\ s = First(q, k)[i]
      BY <1>0, <1>4, <3>2, <3>3, LenProperties
    <3> QED BY <3>4 DEF Elements
  <2> QED BY <2>1, <2>2
<1>7. Elements(After(q, k)) = C \ Wanted(S)
  <2>1. ASSUME NEW s \in Elements(After(q, k)) PROVE s \in C \ Wanted(S)
    <3>1. PICK i \in DOMAIN After(q, k) : s = After(q, k)[i]
      BY DEF Elements
    <3>2. k + i \in 1 .. n /\ ~(k + i <= k) /\ s = q[k + i]
      BY <1>0, <1>5, <3>1, LenProperties
    <3> QED BY <1>2, <1>3, <3>2
  <2>2. ASSUME NEW s \in C \ Wanted(S) PROVE s \in Elements(After(q, k))
    <3>1. PICK i \in 1 .. n : s = q[i]
      BY <1>1 DEF Elements
    <3>2. i > k
      BY <1>0, <1>3, <3>1
    <3>3. i - k \in DOMAIN After(q, k) /\ s = After(q, k)[i - k]
      BY <1>0, <1>5, <3>1, <3>2, LenProperties, SMTT(20)
    <3> QED BY <3>3 DEF Elements
  <2> QED BY <2>1, <2>2
<1> QED BY <1>4, <1>5, <1>6, <1>7 DEF C, q, k

\* When all that is wanted is still there, the rest changes nothing.
LEMMA WantedOfTheRest ==
  ASSUME NEW T \in SUBSET Snapshots, NEW S \in SUBSET T, Wanted(T) \subseteq S
  PROVE  Wanted(S) = Wanted(T)
<1>1. Wanted(T) \subseteq Wanted(S)
  BY WantedOnlyShrinks
<1>2. ASSUME NEW s \in Wanted(S), s \notin Wanted(T) PROVE FALSE
  <2> DEFINE c == s.cadence
             C == OfCadence(T, c)
             n == Cardinality(C)
             q == Sorted(C)
             k == KeepCount[c]
  <2>0. s \in S /\ s \in Snapshots /\ c \in Cadences /\ k \in Nat
    BY RetentionAssumption DEF RetentionAssumption, Wanted
  <2>1. C \in SUBSET Snapshots /\ n \in Nat
    BY Finite DEF OfCadence
  <2>2. /\ \A i, j \in 1 .. n : i < j => NewestFirst(q[i], q[j])
        /\ \A i, j \in 1 .. n : q[i] = q[j] => i = j
        /\ \A i \in 1 .. n : q[i] \in C
        /\ \A t \in C : \E i \in 1 .. n : t = q[i]
    BY <2>1, SortedIsSorted, SortedHoldsAll DEF Elements, Injection, IsInjective
  <2>3. \A i \in 1 .. n : q[i] \in Wanted(T) <=> i <= k
    <3> SUFFICES ASSUME NEW i \in 1 .. n PROVE q[i] \in Wanted(T) <=> i <= k
      OBVIOUS
    <3>1. q[i] \in T /\ q[i] \in Snapshots /\ q[i].cadence = c
      BY <2>2 DEF OfCadence
    <3>2. NewerOfSameCadence(T, q[i]) = {t \in C : NewestFirst(t, q[i])}
      BY <3>1, Older
    <3>3. Cardinality(NewerOfSameCadence(T, q[i])) = i - 1
      BY <2>1, <3>2, PlaceCountsNewer
    <3> QED BY <2>0, <2>1, <3>1, <3>3 DEF Wanted
  <2>4. s \in C
    BY <2>0 DEF OfCadence
  <2> HIDE DEF C, n, q, k
  <2>5. PICK i \in 1 .. n : s = q[i]
    BY <2>2, <2>4
  <2>6. i > k
    BY <1>2, <2>0, <2>1, <2>3, <2>5
  <2> DEFINE f == [j \in 1 .. k |-> q[j]]
             N == NewerOfSameCadence(S, s)
  <2>7. \A j \in 1 .. k : f[j] \in N
    <3> SUFFICES ASSUME NEW j \in 1 .. k PROVE q[j] \in N
      OBVIOUS
    <3>1. j \in 1 .. n /\ j < i
      BY <2>0, <2>1, <2>6
    <3>2. q[j] \in S /\ NewestFirst(q[j], s) /\ q[j].cadence = c
      BY <2>2, <2>3, <2>5, <3>1, <2>1, <2>0 DEF C, OfCadence
    <3> QED BY <3>2, <2>0, Older DEF OfCadence
  <2>8. f \in Injection(1 .. k, N)
    <3>1. \A j \in 1 .. k : j \in 1 .. n
      BY <2>0, <2>1, <2>6
    <3> QED BY <2>7, <2>2, <3>1 DEF Injection, IsInjective
  <2> HIDE DEF f, N
  <2>9. IsFiniteSet(N) /\ Cardinality(N) \in Nat
    BY <2>0, Older DEF N
  <2>10. Cardinality(1 .. k) = k
    BY <2>0, FS_Interval
  <2>11. k <= Cardinality(N)
    BY <2>8, <2>9, <2>10, FS_Injection
  <2>12. Cardinality(N) < k
    BY DEF Wanted, N, k
  <2> QED BY <2>0, <2>9, <2>11, <2>12
<1> QED BY <1>1, <1>2

-----------------------------------------------------------------------------
(* The plans *)

RInv ==
  /\ ever \in SUBSET Snapshots /\ stored \subseteq ever
  /\ phase \in {"idle", "cadences", "planned"}
  /\ past \subseteq ever /\ given \subseteq past /\ toPlan \subseteq Cadences
  /\ keep \in Seq(Snapshots) /\ prune \in Seq(Snapshots)
  \* only what a plan let go is deleted, and that is unwanted
  /\ ever \ stored \subseteq pruned /\ pruned \subseteq ever
  /\ pruned \cap Wanted(ever) = {}
  /\ Wanted(past) \subseteq given
  \* the plan so far
  /\ phase = "cadences" =>
       /\ Elements(keep) = {s \in Wanted(given) : s.cadence \notin toPlan}
       /\ Elements(prune) = {s \in given : s.cadence \in Cadences \ toPlan}
                              \ Wanted(given)
  /\ phase = "planned" => Elements(prune) \subseteq pruned
  /\ PlanAsIfNoneDeleted

LEMMA WantedSubset ==
  ASSUME NEW S
  PROVE  Wanted(S) \subseteq S
BY DEF Wanted

LEMMA RetentionStarts == RetentionInit => RInv
<1> SUFFICES ASSUME RetentionInit PROVE RInv
  OBVIOUS
<1>1. Wanted({}) = {}
  BY DEF Wanted
<1>2. <<>> \in Seq(Snapshots)
  BY EmptySeq
<1> QED BY <1>1, <1>2 DEF RetentionInit, RInv, PlanAsIfNoneDeleted

LEMMA ElementsOfConcat ==
  ASSUME NEW p \in Seq(Snapshots), NEW q \in Seq(Snapshots)
  PROVE  /\ p \o q \in Seq(Snapshots)
         /\ Elements(p \o q) = Elements(p) \cup Elements(q)
<1>1. /\ p \o q \in Seq(Snapshots)
      /\ Len(p) \in Nat /\ Len(q) \in Nat
      /\ DOMAIN p = 1 .. Len(p) /\ DOMAIN q = 1 .. Len(q)
      /\ DOMAIN (p \o q) = 1 .. Len(p) + Len(q)
      /\ \A i \in 1 .. Len(p) + Len(q) :
           (p \o q)[i] = IF i <= Len(p) THEN p[i] ELSE q[i - Len(p)]
  BY ConcatProperties, LenProperties
<1>2. Elements(p \o q) \subseteq Elements(p) \cup Elements(q)
  <2> SUFFICES ASSUME NEW i \in 1 .. Len(p) + Len(q)
               PROVE  (p \o q)[i] \in Elements(p) \cup Elements(q)
    BY <1>1 DEF Elements
  <2>1. CASE i <= Len(p)
    BY <1>1, <2>1 DEF Elements
  <2>2. CASE i > Len(p)
    <3>1. i - Len(p) \in 1 .. Len(q) /\ (p \o q)[i] = q[i - Len(p)]
      BY <1>1, <2>2
    <3> QED BY <1>1, <3>1 DEF Elements
  <2> QED BY <1>1, <2>1, <2>2
<1>3. Elements(p) \subseteq Elements(p \o q)
  <2> SUFFICES ASSUME NEW i \in 1 .. Len(p) PROVE p[i] \in Elements(p \o q)
    BY <1>1 DEF Elements
  <2>1. i \in 1 .. Len(p) + Len(q) /\ (p \o q)[i] = p[i]
    BY <1>1
  <2> QED BY <1>1, <2>1 DEF Elements
<1>4. Elements(q) \subseteq Elements(p \o q)
  <2> SUFFICES ASSUME NEW i \in 1 .. Len(q) PROVE q[i] \in Elements(p \o q)
    BY <1>1 DEF Elements
  <2>1. Len(p) + i \in 1 .. Len(p) + Len(q) /\ (p \o q)[Len(p) + i] = q[i]
    BY <1>1
  <2> QED BY <1>1, <2>1 DEF Elements
<1> QED BY <1>1, <1>2, <1>3, <1>4

LEMMA RetentionSteps == RInv /\ [RetentionNext]_retentionVars => RInv'
<1> SUFFICES ASSUME RInv, [RetentionNext]_retentionVars PROVE RInv'
  OBVIOUS
<1>0. given \in SUBSET Snapshots /\ past \in SUBSET Snapshots
  BY DEF RInv
<1>1. ASSUME NEW s \in Snapshots, Arrive(s) PROVE RInv'
  <2>1. pruned \cap Wanted(ever \cup {s}) = {}
    <3>1. ever \in SUBSET (ever \cup {s}) /\ ever \cup {s} \in SUBSET Snapshots
      BY DEF RInv
    <3>2. Wanted(ever \cup {s}) \cap ever \subseteq Wanted(ever)
      BY <3>1, WantedOnlyShrinks
    <3> QED BY <3>2 DEF RInv
  <2> QED
    BY <1>1, <2>1 DEF RInv, Arrive, planVars, PlanAsIfNoneDeleted
<1>2. ASSUME NEW s \in Snapshots, Delete(s) PROVE RInv'
  BY <1>2 DEF RInv, Delete, planVars, PlanAsIfNoneDeleted
<1>3. ASSUME StartPlan PROVE RInv'
  <2>1. Wanted(ever) \subseteq stored
    BY WantedSubset DEF RInv
  <2>2. /\ {s \in Wanted(stored) : s.cadence \notin Cadences} = {}
        /\ {s \in stored : s.cadence \in Cadences \ Cadences} = {}
    BY DEF Wanted
  <2>3. <<>> \in Seq(Snapshots) /\ Elements(<<>>) = {}
    BY EmptySeq DEF Elements
  <2> QED
    BY <1>3, <2>1, <2>2, <2>3 DEF RInv, StartPlan, PlanAsIfNoneDeleted
<1>4. ASSUME NEW c \in Cadences, PlanCadence(c) PROVE RInv'
  <2> DEFINE items == Sorted(OfCadence(given, c))
             first == First(items, KeepCount[c])
             after == After(items, KeepCount[c])
  <2>1. /\ first \in Seq(Snapshots) /\ after \in Seq(Snapshots)
        /\ Elements(first) = OfCadence(Wanted(given), c)
        /\ Elements(after) = OfCadence(given, c) \ Wanted(given)
    BY <1>0, SplitByCount
  <2>2. /\ keep' = keep \o first /\ prune' = prune \o after
        /\ toPlan' = toPlan \ {c} /\ c \in toPlan
        /\ phase = "cadences" /\ phase' = "cadences"
        /\ UNCHANGED <<ever, stored, given, past, pruned, plans>>
    BY <1>4 DEF PlanCadence, OfCadence
  <2> HIDE DEF items, first, after
  <2>3. /\ keep' \in Seq(Snapshots) /\ prune' \in Seq(Snapshots)
        /\ Elements(keep') = Elements(keep) \cup OfCadence(Wanted(given), c)
        /\ Elements(prune') = Elements(prune) \cup (OfCadence(given, c) \ Wanted(given))
    BY <2>1, <2>2, ElementsOfConcat DEF RInv
  <2>4. Elements(keep') = {s \in Wanted(given) : s.cadence \notin toPlan'}
    BY <2>2, <2>3 DEF RInv, OfCadence
  <2>5. Elements(prune') = {s \in given : s.cadence \in Cadences \ toPlan'} \ Wanted(given)
    BY <2>2, <2>3 DEF RInv, OfCadence
  <2> QED BY <2>2, <2>3, <2>4, <2>5 DEF RInv, PlanAsIfNoneDeleted
<1>5. ASSUME FinishPlan PROVE RInv'
  <2> DEFINE K == Elements(keep)
             P == Elements(prune)
             known == {s \in given : s.cadence \in Cadences}
  <2>1. /\ phase = "cadences" /\ toPlan = {} /\ phase' = "planned"
        /\ keep' = Sorted(K) /\ prune' = Sorted(P) /\ pruned' = pruned \cup P
        /\ UNCHANGED <<ever, stored, given, past, toPlan, plans>>
    BY <1>5 DEF FinishPlan
  <2>2. K = Wanted(given) /\ P = known \ Wanted(given)
    BY <2>1 DEF RInv
  <2>3. Wanted(given) = Wanted(past)
    BY <1>0, WantedOfTheRest DEF RInv
  <2>4. K \subseteq known
    BY <2>2 DEF Wanted
  <2>5. K \in SUBSET Snapshots /\ P \in SUBSET Snapshots /\ known \in SUBSET Snapshots
    BY <1>0, <2>2, <2>4
  <2>6. K \cap P = {} /\ K \cup P = known
    BY <2>2, <2>4
  <2> HIDE DEF K, P, known
  <2>7. /\ keep' \in Seq(Snapshots) /\ prune' \in Seq(Snapshots)
        /\ Elements(keep') = K /\ Elements(prune') = P
        /\ Len(keep') = Cardinality(K) /\ Len(prune') = Cardinality(P)
    BY <2>1, <2>5, SortedHoldsAll, SeqMonotonic
  <2>8. Cardinality(K) + Cardinality(P) = Cardinality(known)
    <3>1. /\ IsFiniteSet(K) /\ IsFiniteSet(P)
          /\ Cardinality(K) \in Nat /\ Cardinality(P) \in Nat
      BY <2>5, Finite
    <3>2. Cardinality(known) = Cardinality(K) + Cardinality(P) - Cardinality({})
      BY <2>6, <3>1, FS_Union
    <3> QED BY <3>1, <3>2, FS_EmptySet
  <2>9. PlanAsIfNoneDeleted'
    BY <2>1, <2>2, <2>3, <2>7, <2>8 DEF PlanAsIfNoneDeleted, known
  <2>10. P \cap Wanted(ever) = {} /\ P \subseteq ever
    <3>1. P \subseteq past /\ P \cap Wanted(past) = {}
      BY <2>2, <2>3 DEF known, RInv
    <3>2. Wanted(ever) \cap past \subseteq Wanted(past)
      BY WantedOnlyShrinks DEF RInv
    <3> QED BY <3>1, <3>2 DEF RInv
  <2> QED BY <2>1, <2>7, <2>9, <2>10 DEF RInv
<1>6. CASE UNCHANGED retentionVars
  BY <1>6 DEF RInv, retentionVars, planVars, PlanAsIfNoneDeleted
<1> QED
  BY <1>1, <1>2, <1>3, <1>4, <1>5, <1>6 DEF RetentionNext

LEMMA RInvHolds == Spec => []RInv
<1>1. Init => RInv
  BY RetentionStarts DEF Init
<1>2. [Next]_manifestVars => [RetentionNext]_retentionVars
  BY DEF Next, manifestVars
<1> QED BY <1>1, <1>2, RetentionSteps, PTL DEF Spec

\* A plan that sees what was not deleted is the plan for all snapshots there
\* have ever been (retention.go 31-56).
THEOREM PlanAsIfNoneDeletedHolds == Spec => []PlanAsIfNoneDeleted
<1>1. RInv => PlanAsIfNoneDeleted
  BY DEF RInv
<1> QED BY <1>1, RInvHolds, PTL

\* Nothing that a plan let go is wanted later, whatever arrives
\* (retention.go 45-51).
THEOREM PrunedForGoodHolds == Spec => []PrunedForGood
<1>1. RInv => PrunedForGood
  BY WantedSubset DEF RInv, PrunedForGood
<1> QED BY <1>1, RInvHolds, PTL

-----------------------------------------------------------------------------
(* Lines and scripts *)

LEMMA LineFields ==
  \A l \in Lines :
    /\ l.is = "helper" => l.name \in HelperNames
                            /\ l = [is |-> "helper", name |-> l.name]
    /\ l.is = "whois" => l.host \in Hosts /\ l.asks \in Kinds \cup {"other"}
    /\ l.is = "call" => l.name \in HelperNames /\ l.arg \in Values \cup Variables
    /\ l.is = "for" => l.var \in Variables /\ l.values \subseteq Values
<1> SUFFICES ASSUME NEW l \in Lines
             PROVE  /\ l.is = "helper" => l.name \in HelperNames
                                            /\ l = [is |-> "helper", name |-> l.name]
                    /\ l.is = "whois" => l.host \in Hosts /\ l.asks \in Kinds \cup {"other"}
                    /\ l.is = "call" => l.name \in HelperNames
                                          /\ l.arg \in Values \cup Variables
                    /\ l.is = "for" => l.var \in Variables /\ l.values \subseteq Values
  OBVIOUS
<1>1. CASE l \in [is : {"helper"}, name : HelperNames]
  BY <1>1
<1>2. CASE l \in [is : {"whois"}, host : Hosts, asks : Kinds \cup {"other"}]
  BY <1>2
<1>3. CASE l \in [is : {"call"}, name : HelperNames, arg : Values \cup Variables]
  BY <1>3
<1>4. CASE l \in [is : {"for"}, var : Variables, values : SUBSET Values]
  BY <1>4
<1>5. CASE l \in [is : {"end", "done", "other"}]
  BY <1>5
<1> QED BY <1>1, <1>2, <1>3, <1>4, <1>5 DEF Lines

\* The mirrors the functions of one name ask for one kind.
MirrorsIn(s, n, k) ==
  {MirrorOf[s[w].host] :
     w \in {x \in UNION {Body(s, b) : b \in Begins(s, n)} :
              Is(s, x, "whois") /\ s[x].asks = k}}

MirrorsMentioned(s, k, v) == MirrorsAmong(Mentions(s), k, v)

\* One more line of a function.
LEMMA LineOfBody ==
  ASSUME NEW s, Len(s) \in Nat, NEW n, NEW b \in Nat, b \in Begins(s, n),
         NEW i \in 1 .. Len(s), b < i,
         \A j \in b + 1 .. i - 1 : ~Is(s, j, "end"), ~Is(s, i, "end")
  PROVE  /\ b < i + 1
         /\ \A j \in b + 1 .. i + 1 - 1 : ~Is(s, j, "end")
         /\ i \in UNION {Body(s, e) : e \in Begins(s, n)}
<1>1. i \in b + 1 .. Len(s)
  OBVIOUS
<1>2. ASSUME NEW j \in b + 1 .. i PROVE ~Is(s, j, "end")
  <2>1. j = i \/ j \in b + 1 .. i - 1
    OBVIOUS
  <2> QED BY <2>1
<1>3. i + 1 - 1 = i /\ b < i + 1
  OBVIOUS
<1>4. i \in Body(s, b)
  BY <1>1, <1>2 DEF Body
<1> QED BY <1>2, <1>3, <1>4

\* What a function asks, a call of it asks for every value it passes on.
LEMMA AskedByCall ==
  ASSUME NEW s, NEW n, NEW k, NEW c \in 1 .. Len(s), NEW v \in Passed(s, c),
         Is(s, c, "call"), s[c].name = n
  PROVE  MirrorsIn(s, n, k) \subseteq MirrorsMentioned(s, k, v)
<1> SUFFICES ASSUME NEW w \in UNION {Body(s, b) : b \in Begins(s, n)},
                    Is(s, w, "whois"), s[w].asks = k
             PROVE  MirrorOf[s[w].host] \in MirrorsMentioned(s, k, v)
  BY DEF MirrorsIn
<1> DEFINE a == <<s[w].host, s[w].asks, v>>
           C == {x \in 1 .. Len(s) : Is(s, x, "call")}
           W(x) == {y \in UNION {Body(s, b) : b \in Begins(s, s[x].name)} :
                      Is(s, y, "whois")}
           A(x) == {<<s[y].host, s[y].asks, u>> : y \in W(x), u \in Passed(s, x)}
<1>1. c \in C /\ w \in W(c)
  OBVIOUS
<1>2. a \in A(c)
  BY <1>1
<1>3. a \in UNION {A(x) : x \in C}
  BY <1>1, <1>2
<1>4. a \in Mentions(s)
  BY <1>3 DEF Mentions
<1>5. a[1] = s[w].host /\ a[2] = k /\ a[3] = v
  OBVIOUS
<1> QED BY <1>4, <1>5 DEF MirrorsMentioned, MirrorsAmong

\* A call with the variable of a loop, before the first "done", passes on
\* every value of the loop.
LEMMA PassedByLoop ==
  ASSUME NEW s \in Seq(Lines), NEW f \in 1 .. Len(s), NEW i \in f + 1 .. Len(s),
         Is(s, f, "for"), s[i].arg = s[f].var,
         \A j \in f + 1 .. i : ~Is(s, j, "done")
  PROVE  s[f].values \subseteq Passed(s, i)
<1> Len(s) \in Nat /\ s[f] \in Lines
  BY LenProperties
<1>1. s[f].var \in Variables
  BY LineFields DEF Is
<1>2. s[i].arg \notin Values
  BY <1>1, ScriptsAssumption DEF ScriptsAssumption
<1>3. ASSUME NEW m \in f .. i PROVE ~Balanced(s, f, m)
  <2> DEFINE F == {x \in f .. m : Is(s, x, "for")}
             D == {x \in f .. m : Is(s, x, "done")}
  <2>0. f \in Int /\ m \in Int /\ f <= m
    OBVIOUS
  <2>1. f \in F /\ D = {}
    <3>1. ~Is(s, f, "done")
      BY DEF Is
    <3>2. \A x \in f .. m : x = f \/ x \in f + 1 .. i
      OBVIOUS
    <3> QED BY <2>0, <3>1, <3>2
  <2>2. IsFiniteSet(f .. m) /\ F \in SUBSET (f .. m)
    BY <2>0, FS_Interval
  <2> HIDE DEF F, D
  <2>3. IsFiniteSet(F) /\ F # {}
    BY <2>1, <2>2, FS_Subset
  <2>4. Cardinality(F) # 0 /\ Cardinality(D) = 0
    BY <2>1, <2>3, FS_EmptySet
  <2> QED BY <2>4 DEF Balanced, F, D
<1>4. f \in Around(s, i)
  BY <1>3 DEF Around
<1> QED BY <1>2, <1>4 DEF Passed

LEMMA FirstDone ==
  ASSUME NEW s \in Seq(Lines), NEW f \in 1 .. Len(s),
         \E e \in f + 1 .. Len(s) : s[e].is = "done"
  PROVE  \E e \in f + 1 .. Len(s) :
           /\ s[e].is = "done"
           /\ \A i \in f + 1 .. e - 1 : s[i].is # "done"
<1> DEFINE D == {e \in f + 1 .. Len(s) : s[e].is = "done"}
           U == f + 1 .. Len(s)
           T == {f + 1 .. e : e \in D}
<1>0. Len(s) \in Nat
  BY LenProperties
<1>1. T \subseteq FiniteSubsetsOf(U)
  <2> SUFFICES ASSUME NEW e \in D PROVE f + 1 .. e \in FiniteSubsetsOf(U)
    OBVIOUS
  <2>1. IsFiniteSet(f + 1 .. e)
    BY <1>0, FS_Interval
  <2>2. f + 1 .. e \subseteq U
    BY <1>0
  <2> QED BY <2>1, <2>2 DEF FiniteSubsetsOf
<1>2. T # {}
  OBVIOUS
<1> HIDE DEF T
<1>3. PICK t \in T : \A u \in T : <<u, t>> \notin StrictSubsetOrdering(U)
  BY <1>1, <1>2, FS_StrictSubsetOrderingWellFounded, WFMin
<1>4. PICK e \in D : t = f + 1 .. e
  BY <1>3 DEF T
<1>5. ASSUME NEW i \in f + 1 .. e - 1, s[i].is = "done" PROVE FALSE
  <2>1. i \in D
    BY <1>0, <1>5
  <2>2. f + 1 .. i \in T
    BY <2>1 DEF T
  <2>3. f + 1 .. i \subseteq t /\ e \in t /\ e \notin f + 1 .. i /\ t \subseteq U
    BY <1>0, <1>4
  <2>4. <<f + 1 .. i, t>> \in StrictSubsetOrdering(U)
    BY <2>3 DEF StrictSubsetOrdering
  <2> QED BY <1>3, <2>2, <2>4
<1> QED BY <1>5

-----------------------------------------------------------------------------
(* The inductive invariant *)

Mirrors == {MirrorOf[h] : h \in Hosts}
Specs == [kind : Kinds \cup {"none"}, mirrors : SUBSET Mirrors]
Working == pc \in {"helpers", "calls", "loops", "loop"}

Types ==
  /\ pc \in {"read", "helpers", "calls", "loops", "loop", "written", "failed"}
  /\ tree \in [Downloaders -> Seq(Lines) \cup {NoScript}]
  /\ unread \subseteq Downloaders
  /\ at \in Nat \ {0}
  /\ inside \in HelperNames \cup {NoHelper}
  /\ helper \in Specs
  /\ helpers \in [HelperNames -> Specs]
  /\ Working => /\ current \in Downloaders \ unread
                /\ Script \in Seq(Lines)
  /\ pc = "loop" => at \in 1 .. Len(Script) /\ IsLoop(at) /\ pending \subseteq Found

\* What is known of a function of this name is true of it.
Fits(spec, n) ==
  \/ spec = NoSpec
  \/ /\ spec.kind \in Kinds
     /\ spec.mirrors # {}
     /\ spec.mirrors \subseteq MirrorsIn(Script, n, spec.kind)

\* Line l is in a function of this name that has not ended before it.
InFunction(s, l, n) ==
  \E b \in Begins(s, n) : b < l /\ \A j \in b + 1 .. l - 1 : ~Is(s, j, "end")

HelpersFit ==
  /\ pc # "helpers" => inside = NoHelper
  /\ pc = "helpers" /\ inside # NoHelper => InFunction(Script, at, inside) /\ Fits(helper, inside)
  /\ Working => \A n \in HelperNames : Fits(helpers[n], n)

\* A query that is asked, and of which LoadQueries accepts the kind and value.
Good(q) ==
  /\ q \in Queries
  /\ q.downloader \notin unread
  /\ q.value # Empty
  /\ q.mirrors # {}
  /\ q.mirrors \subseteq MirrorsMentioned(tree[q.downloader], q.kind, q.value)

FileIsRead ==
  /\ pc = "written" => file = specs /\ loaded # "refused"
  /\ pc \notin {"written", "failed"} => loaded = "no"

EInv ==
  /\ Types
  /\ HelpersFit
  /\ \A q \in seen \cup specs : Good(q)
  /\ FileIsRead

LEMMA ExtractStarts == ExtractInit => EInv
<1> SUFFICES ASSUME ExtractInit PROVE EInv
  OBVIOUS
<1>1. NoSpec \in Specs
  BY DEF NoSpec, Specs
<1> QED
  BY <1>1 DEF ExtractInit, EInv, Types, HelpersFit, FileIsRead, Working

LEMMA ReadScriptKeeps ==
  ASSUME EInv, NEW d \in Downloaders, ReadScript(d)
  PROVE  EInv'
<1>0. NoSpec \in Specs
  BY DEF NoSpec, Specs
<1>1. PICK script \in Scripts[d] : tree' = [tree EXCEPT ![d] = script]
  BY DEF ReadScript
<1>2. script \in Seq(Lines) \cup {NoScript}
  BY ScriptsAssumption DEF ScriptsAssumption, Downloaders
<1>3. /\ tree' \in [Downloaders -> Seq(Lines) \cup {NoScript}]
      /\ tree'[d] = script
      /\ \A e \in Downloaders \ {d} : tree'[e] = tree[e]
  BY <1>1, <1>2 DEF EInv, Types
<1>4. /\ pc = "read" /\ d \in unread /\ unread' = unread \ {d}
      /\ UNCHANGED <<inside, helper, pending, specs, file, loaded>>
  BY DEF ReadScript
<1>5. \A q \in seen \cup specs : Good(q)'
  <2> SUFFICES ASSUME NEW q \in seen \cup specs PROVE Good(q)'
    OBVIOUS
  <2>1. Good(q)
    BY DEF EInv
  <2>2. q.downloader \in Downloaders \ {d}
    BY <1>4, <2>1 DEF Good, Queries
  <2>3. tree'[q.downloader] = tree[q.downloader]
    BY <1>3, <2>2
  <2>4. q.mirrors \subseteq MirrorsMentioned(tree'[q.downloader], q.kind, q.value)
    BY <2>1, <2>3 DEF Good
  <2> QED BY <1>4, <2>1, <2>2, <2>4 DEF Good
<1>6. CASE tree'[d] = NoScript
  <2>1. UNCHANGED <<pc, current, at, helpers, seen>>
    BY <1>6 DEF ReadScript
  <2> QED
    BY <1>3, <1>4, <1>5, <2>1 DEF EInv, Types, HelpersFit, FileIsRead, Working
<1>7. CASE tree'[d] # NoScript
  <2>1. /\ pc' = "helpers" /\ current' = d /\ at' = 1
        /\ helpers' = [n \in HelperNames |-> NoSpec] /\ seen' = {}
    BY <1>7 DEF ReadScript
  <2>2. Types'
    BY <1>0, <1>2, <1>3, <1>4, <1>7, <2>1 DEF EInv, Types, Working, Script
  <2>3. HelpersFit'
    BY <1>4, <2>1 DEF EInv, HelpersFit, Working, Fits
  <2> QED
    BY <1>4, <1>5, <2>1, <2>2, <2>3 DEF EInv, FileIsRead
<1> QED BY <1>6, <1>7

-----------------------------------------------------------------------------
(* The functions of a script *)

LEMMA LineRead ==
  ASSUME EInv, Working, at <= Len(Script)
  PROVE  /\ at \in 1 .. Len(Script) /\ Len(Script) \in Nat
         /\ Script[at] \in Lines
BY LenProperties, ElementOfSeq DEF EInv, Types

\* Facts that hold on as long as the same script is read.
LEMMA SameScript ==
  ASSUME UNCHANGED <<tree, current, unread>>
  PROVE  /\ Script' = Script
         /\ \A spec, n : Fits(spec, n) => Fits(spec, n)'
         /\ \A q : Good(q) => Good(q)'
BY DEF Script, Fits, Good

LEMMA HelperLineKeeps ==
  ASSUME EInv, HelperLine
  PROVE  EInv'
<1> DEFINE line == Script[at]
<1>1. /\ pc = "helpers" /\ pc' = "helpers" /\ at <= Len(Script) /\ at' = at + 1
      /\ UNCHANGED <<tree, unread, current, pending, seen, specs, file, loaded>>
  BY DEF HelperLine
<1>2. /\ Working /\ Working'
      /\ at \in 1 .. Len(Script) /\ Len(Script) \in Nat /\ line \in Lines
  BY <1>1, LineRead DEF Working
<1>3. /\ Script' = Script
      /\ \A spec, n : Fits(spec, n) => Fits(spec, n)'
      /\ \A q : Good(q) => Good(q)'
  BY <1>1, SameScript
<1>4. NoSpec \in Specs
  BY DEF NoSpec, Specs
<1>5. ASSUME inside' \in HelperNames \cup {NoHelper}, helper' \in Specs,
             helpers' \in [HelperNames -> Specs],
             inside' # NoHelper => /\ InFunction(Script, at + 1, inside')
                                  /\ Fits(helper', inside'),
             \A n \in HelperNames : Fits(helpers'[n], n)
      PROVE  EInv'
  <2>1. Types'
    BY <1>1, <1>2, <1>3, <1>5 DEF EInv, Types, Working
  <2>2. HelpersFit'
    BY <1>1, <1>3, <1>5 DEF HelpersFit, Fits
  <2> QED BY <1>1, <1>3, <2>1, <2>2 DEF EInv, FileIsRead
<1>6. /\ inside \in HelperNames \cup {NoHelper} /\ helper \in Specs
      /\ helpers \in [HelperNames -> Specs]
      /\ inside # NoHelper => InFunction(Script, at, inside) /\ Fits(helper, inside)
      /\ \A n \in HelperNames : Fits(helpers[n], n)
  BY <1>1, <1>2 DEF EInv, Types, HelpersFit
\* Inside a function, a line that does not end it.
<1>7. ASSUME inside # NoHelper, ~Is(Script, at, "end")
      PROVE  InFunction(Script, at + 1, inside)
  <2>1. PICK b \in Begins(Script, inside) :
          b < at /\ \A j \in b + 1 .. at - 1 : ~Is(Script, j, "end")
    BY <1>6, <1>7 DEF InFunction
  <2> b \in Nat
    BY DEF Begins
  <2>2. b < at + 1 /\ \A j \in b + 1 .. at + 1 - 1 : ~Is(Script, j, "end")
    BY <1>2, <1>7, <2>1, LineOfBody
  <2> QED BY <1>2, <2>1, <2>2 DEF InFunction
<1>8. CASE inside = NoHelper /\ line.is = "helper"
  <2>1. inside' = line.name /\ helper' = NoSpec /\ helpers' = helpers
    BY <1>8 DEF HelperLine
  <2>2. line.name \in HelperNames /\ line = [is |-> "helper", name |-> line.name]
    BY <1>2, <1>8, LineFields
  <2>3. at \in Begins(Script, line.name)
    BY <1>2, <2>2 DEF Begins
  <2>4. at < at + 1 /\ at + 1 .. at + 1 - 1 = {}
    BY <1>2
  <2>5. at < at + 1 /\ \A j \in at + 1 .. at + 1 - 1 : ~Is(Script, j, "end")
    BY <1>2, <2>4
  <2>6. InFunction(Script, at + 1, line.name)
    BY <1>2, <2>3, <2>5 DEF InFunction
  <2> QED BY <1>4, <1>5, <1>6, <2>1, <2>2, <2>6 DEF Fits
<1>9. CASE inside # NoHelper /\ line.is = "end"
  <2>1. inside' = NoHelper /\ helper' = helper /\ helpers' = WithHelper
    BY <1>9 DEF HelperLine, Asking
  <2>2. /\ helpers' \in [HelperNames -> Specs]
        /\ \A n \in HelperNames : Fits(helpers'[n], n)
    BY <1>6, <1>9, <2>1 DEF WithHelper
  <2> QED BY <1>5, <1>6, <2>1, <2>2
<1>10. CASE inside # NoHelper /\ Asking(line)
  <2> DEFINE new == [kind |-> line.asks,
                     mirrors |-> helper.mirrors \cup {MirrorOf[line.host]}]
  <2>0. line.is = "whois" /\ line.asks \in Kinds /\ helper.kind \in {"none", line.asks}
    BY <1>10 DEF Asking
  <2>1. inside' = inside /\ helper' = new /\ helpers' = helpers
    BY <1>10, <2>0 DEF HelperLine
  <2>2. line.host \in Hosts
    BY <1>2, <2>0, LineFields
  <2>3. new \in Specs
    BY <1>6, <2>0, <2>2 DEF Specs, Mirrors
  <2>4. ~Is(Script, at, "end")
    BY <2>0 DEF Is
  <2>5. MirrorOf[line.host] \in MirrorsIn(Script, inside, line.asks)
    <3>1. PICK b \in Begins(Script, inside) :
            b < at /\ \A j \in b + 1 .. at - 1 : ~Is(Script, j, "end")
      BY <1>6, <1>10 DEF InFunction
    <3> b \in Nat
      BY DEF Begins
    <3>5. at \in UNION {Body(Script, e) : e \in Begins(Script, inside)}
      BY <1>2, <2>4, <3>1, LineOfBody
    <3>6. Is(Script, at, "whois")
      BY <2>0 DEF Is
    <3> QED BY <3>5, <3>6 DEF MirrorsIn
  <2>6. helper.mirrors \subseteq MirrorsIn(Script, inside, line.asks)
    BY <1>6, <1>10, <2>0 DEF Fits, NoSpec, Kinds
  <2>7. Fits(new, inside)
    BY <2>0, <2>5, <2>6 DEF Fits
  <2> QED BY <1>5, <1>6, <1>7, <1>10, <2>1, <2>3, <2>4, <2>7
<1>11. CASE IF inside = NoHelper THEN line.is # "helper"
            ELSE line.is # "end" /\ ~Asking(line)
  <2>1. UNCHANGED <<inside, helper, helpers>>
    BY <1>11 DEF HelperLine
  <2>2. inside # NoHelper => ~Is(Script, at, "end")
    BY <1>11 DEF Is
  <2> QED BY <1>5, <1>6, <1>7, <2>1, <2>2
<1> QED BY <1>8, <1>9, <1>10, <1>11

LEMMA HelpersFoundKeeps ==
  ASSUME EInv, HelpersFound
  PROVE  EInv'
<1>1. /\ pc = "helpers" /\ pc' = "calls" /\ at' = 1 /\ inside' = NoHelper
      /\ helpers' = IF inside = NoHelper THEN helpers ELSE WithHelper
      /\ UNCHANGED <<tree, unread, current, helper, pending, seen, specs, file, loaded>>
  BY DEF HelpersFound
<1>2. /\ Script' = Script
      /\ \A spec, n : Fits(spec, n) => Fits(spec, n)'
      /\ \A q : Good(q) => Good(q)'
  BY <1>1, SameScript
<1>3. /\ helpers' \in [HelperNames -> Specs]
      /\ \A n \in HelperNames : Fits(helpers'[n], n)
  BY <1>1 DEF EInv, Types, HelpersFit, WithHelper, Working
<1>4. Types'
  BY <1>1, <1>2, <1>3 DEF EInv, Types, Working
<1>5. HelpersFit'
  BY <1>1, <1>2, <1>3 DEF HelpersFit, Fits
<1> QED BY <1>1, <1>2, <1>4, <1>5 DEF EInv, FileIsRead

-----------------------------------------------------------------------------
(* The calls and the loops of a script *)

\* A step that only adds good queries and goes on with the same script.
LEMMA GoesOn ==
  ASSUME EInv, Working,
         UNCHANGED <<tree, unread, current, inside, helper, helpers, specs, file, loaded>>,
         pc' \in {"calls", "loops", "loop", "read"}, inside = NoHelper,
         at' \in Nat \ {0},
         pc' = "loop" => at' \in 1 .. Len(Script) /\ IsLoop(at')
                          /\ pending' \subseteq Found,
         \A q \in seen' : Good(q)
  PROVE  EInv'
<1>1. /\ Script' = Script
      /\ \A spec, n : Fits(spec, n) => Fits(spec, n)'
      /\ \A q : Good(q) => Good(q)'
  BY SameScript
<1>2. pc' = "loop" => at' \in 1 .. Len(Script') /\ IsLoop(at)' /\ pending' \subseteq Found'
  BY <1>1 DEF IsLoop, Found
<1>3. Types'
  BY <1>1, <1>2 DEF EInv, Types, Working
<1>4. HelpersFit'
  BY <1>1 DEF EInv, HelpersFit, Working
<1> QED BY <1>1, <1>3, <1>4 DEF EInv, FileIsRead, Working

LEMMA AddedIsGood ==
  ASSUME EInv, Working, NEW h \in Found, NEW c \in 1 .. Len(Script),
         Is(Script, c, "call"), Script[c].name = h,
         NEW values, values \cap Values \subseteq Passed(Script, c)
  PROVE  \A q \in Added(h, values) : Good(q)
<1> DEFINE k == helpers[h].kind
           new(v) == [downloader |-> current, kind |-> k, value |-> v,
                      mirrors |-> helpers[h].mirrors]
<1>1. /\ current \in Downloaders \ unread
      /\ helpers[h] \in Specs /\ helpers[h] # NoSpec /\ Fits(helpers[h], h)
  BY DEF EInv, Types, HelpersFit, Found
<1>2. /\ k \in Kinds /\ helpers[h].mirrors # {}
      /\ helpers[h].mirrors \subseteq MirrorsIn(Script, h, k)
  BY <1>1 DEF Fits
<1>3. ASSUME NEW v \in values, Accepted(k, v) PROVE Good(new(v))
  <2>1. v \in Values /\ v # Empty /\ v \in Passed(Script, c)
    BY <1>3 DEF Accepted
  <2>2. MirrorsIn(Script, h, k) \subseteq MirrorsMentioned(Script, k, v)
    BY <2>1, AskedByCall
  <2>3. new(v) \in Queries
    BY <1>1, <1>2, <2>1 DEF Queries, Specs, Mirrors
  <2>4. new(v).mirrors \subseteq MirrorsMentioned(tree[new(v).downloader], k, v)
    BY <1>2, <2>2 DEF Script
  <2> QED BY <1>1, <1>2, <2>1, <2>3, <2>4 DEF Good
<1>4. Added(h, values) \subseteq seen \cup {new(v) : v \in {w \in values : Accepted(k, w)}}
  BY DEF Added
<1> HIDE DEF new
<1> QED BY <1>3, <1>4 DEF EInv

LEMMA CallLineKeeps ==
  ASSUME EInv, CallLine
  PROVE  EInv'
<1>1. /\ pc = "calls" /\ at <= Len(Script) /\ at' = at + 1
      /\ UNCHANGED <<tree, pc, unread, current, inside, helper, helpers, pending,
                     specs, file, loaded>>
  BY DEF CallLine
<1>2. /\ Working /\ at \in 1 .. Len(Script) /\ Len(Script) \in Nat
      /\ inside = NoHelper
  BY <1>1, LineRead DEF Working, EInv, HelpersFit
<1>3. \A q \in seen' : Good(q)
  <2>1. CASE Script[at].is = "call" /\ Script[at].name \in Found
    <3>1. {Script[at].arg} \cap Values \subseteq Passed(Script, at)
      BY DEF Passed
    <3>2. seen' = Added(Script[at].name, {Script[at].arg})
      BY <2>1 DEF CallLine
    <3> QED BY <1>2, <2>1, <3>1, <3>2, AddedIsGood DEF Is
  <2>2. CASE ~(Script[at].is = "call" /\ Script[at].name \in Found)
    BY <2>2 DEF CallLine, EInv
  <2> QED BY <2>1, <2>2
<1>4. at' \in Nat \ {0}
  BY <1>1, <1>2
<1> QED BY <1>1, <1>2, <1>3, <1>4, GoesOn

LEMMA CallsFoundKeeps ==
  ASSUME EInv, CallsFound
  PROVE  EInv'
BY GoesOn DEF CallsFound, scriptVars, EInv, HelpersFit, Working

LEMMA FindLoopKeeps ==
  ASSUME EInv, FindLoop
  PROVE  EInv'
<1>1. /\ pc = "loops" /\ pc' = "loop" /\ pending' = Found
      /\ UNCHANGED <<tree, unread, current, inside, helper, helpers, seen, specs,
                     file, loaded>>
  BY DEF FindLoop
<1>2. /\ Working /\ inside = NoHelper /\ Len(Script) \in Nat /\ at \in Nat \ {0}
  BY <1>1, LenProperties DEF Working, EInv, HelpersFit, Types
<1>3. at' \in at .. Len(Script) /\ IsLoop(at')
  BY DEF FindLoop
<1> QED BY <1>1, <1>2, <1>3, GoesOn DEF EInv

LEMMA DoneIsAfter ==
  ASSUME EInv, pc = "loop"
  PROVE  /\ at \in 1 .. Len(Script) /\ Len(Script) \in Nat /\ Is(Script, at, "for")
         /\ DoneAfter(at) \in at + 1 .. Len(Script)
         /\ \A i \in at + 1 .. DoneAfter(at) - 1 : Script[i].is # "done"
<1>1. /\ Script \in Seq(Lines) /\ at \in 1 .. Len(Script) /\ IsLoop(at)
  BY DEF EInv, Types, Working
<1>2. Len(Script) \in Nat
  BY <1>1, LenProperties
<1>3. \E e \in at + 1 .. Len(Script) :
        /\ Script[e].is = "done"
        /\ \A i \in at + 1 .. e - 1 : Script[i].is # "done"
  BY <1>1, FirstDone DEF IsLoop
<1> QED BY <1>1, <1>2, <1>3 DEF DoneAfter, IsLoop, Is

LEMMA LoopHelperKeeps ==
  ASSUME EInv, NEW h \in pending, LoopHelper(h)
  PROVE  EInv'
<1>1. /\ pc = "loop" /\ pending' = pending \ {h}
      /\ seen' = IF Matched(h, at) THEN Added(h, Script[at].values) ELSE seen
      /\ UNCHANGED <<tree, pc, unread, current, at, inside, helper, helpers, specs,
                     file, loaded>>
  BY DEF LoopHelper
<1>2. /\ Working /\ inside = NoHelper /\ pending \subseteq Found /\ IsLoop(at)
      /\ Script \in Seq(Lines) /\ at \in Nat \ {0}
  BY <1>1 DEF Working, EInv, HelpersFit, Types
<1>3. /\ at \in 1 .. Len(Script) /\ Len(Script) \in Nat /\ Is(Script, at, "for")
      /\ DoneAfter(at) \in at + 1 .. Len(Script)
      /\ \A i \in at + 1 .. DoneAfter(at) - 1 : Script[i].is # "done"
  BY <1>1, DoneIsAfter
<1>4. \A q \in seen' : Good(q)
  <2>1. CASE Matched(h, at)
    <3>1. PICK i \in at + 1 .. DoneAfter(at) - 1 :
            Script[i] = [is |-> "call", name |-> h, arg |-> Script[at].var]
      BY <2>1 DEF Matched
    <3>2. i \in at + 1 .. Len(Script) /\ i \in 1 .. Len(Script)
      BY <1>3
    <3>3. Is(Script, i, "call") /\ Script[i].name = h /\ Script[i].arg = Script[at].var
      BY <3>1 DEF Is
    <3>4. \A j \in at + 1 .. i : ~Is(Script, j, "done")
      BY <1>3 DEF Is
    <3>5. Script[at].values \subseteq Passed(Script, i)
      BY <1>2, <1>3, <3>2, <3>3, <3>4, PassedByLoop
    <3> QED BY <1>1, <1>2, <2>1, <3>2, <3>3, <3>5, AddedIsGood
  <2>2. CASE ~Matched(h, at)
    BY <1>1, <2>2 DEF EInv
  <2> QED BY <2>1, <2>2
<1> QED BY <1>1, <1>2, <1>3, <1>4, GoesOn

LEMMA LoopOverKeeps ==
  ASSUME EInv, LoopOver
  PROVE  EInv'
<1>1. /\ pc = "loop" /\ pc' = "loops" /\ at' = DoneAfter(at) + 1
      /\ UNCHANGED <<tree, unread, current, inside, helper, helpers, pending, seen,
                     specs, file, loaded>>
  BY DEF LoopOver, scriptVars
<1>2. Working /\ inside = NoHelper
  BY <1>1 DEF Working, EInv, HelpersFit
<1>3. at' \in Nat \ {0}
  BY <1>1, DoneIsAfter
<1> QED BY <1>1, <1>2, <1>3, GoesOn DEF EInv

LEMMA CollectKeeps ==
  ASSUME EInv, Collect
  PROVE  EInv'
<1>1. /\ pc = "loops" /\ pc' = "read" /\ specs' = specs \cup seen
      /\ UNCHANGED <<tree, unread, current, at, inside, helper, helpers, pending,
                     seen, file, loaded>>
  BY DEF Collect, scriptVars
<1>2. \A q : Good(q) => Good(q)'
  BY <1>1, SameScript
<1>3. Types'
  BY <1>1 DEF EInv, Types, Working
<1>4. HelpersFit'
  BY <1>1 DEF EInv, HelpersFit, Working
<1> QED BY <1>1, <1>2, <1>3, <1>4 DEF EInv, FileIsRead

-----------------------------------------------------------------------------
(* The file *)

LEMMA FileStepsKeep ==
  ASSUME EInv, ReadFails \/ Write \/ WriteFails \/ Load
  PROVE  EInv'
<1>1. /\ pc' \in {"written", "failed"}
      /\ UNCHANGED <<tree, unread, current, at, inside, helper, helpers, pending,
                     seen, specs>>
      /\ pc = "read" \/ pc \in {"written", "failed"}
  BY DEF ReadFails, Write, WriteFails, Load, scriptVars
<1>2. \A q : Good(q) => Good(q)'
  BY <1>1, SameScript
<1>3. Types'
  BY <1>1 DEF EInv, Types, Working
<1>4. HelpersFit'
  BY <1>1 DEF EInv, HelpersFit, Working
<1>5. FileIsRead'
  <2>1. CASE ReadFails \/ WriteFails
    BY <2>1 DEF ReadFails, WriteFails, FileIsRead
  <2>2. CASE Write
    BY <2>2 DEF Write, EInv, FileIsRead
  <2>3. CASE Load
    <3>1. pc' = pc /\ file' = file /\ specs' = specs /\ pc \in {"written", "failed"}
      BY <2>3 DEF Load
    <3>2. CASE pc = "written"
      <4>1. file = specs /\ \A q \in specs : Good(q)
        BY <3>2 DEF EInv, FileIsRead
      <4>2. \A q \in specs : q.kind \in Kinds /\ q.value # Empty
        BY <4>1 DEF Good, Queries
      <4>3. NoSpec.kind \notin Kinds
        BY DEF NoSpec, Kinds
      <4>4. file # Garbled
        BY <4>1, <4>2, <4>3 DEF Garbled
      <4>5. loaded' = "accepted"
        BY <2>3, <4>1, <4>2, <4>4 DEF Load
      <4> QED BY <3>1, <3>2, <4>1, <4>5 DEF FileIsRead
    <3>3. CASE pc = "failed"
      BY <3>1, <3>3 DEF FileIsRead
    <3> QED BY <3>1, <3>2, <3>3
  <2> QED BY <2>1, <2>2, <2>3
<1> QED BY <1>1, <1>2, <1>3, <1>4, <1>5 DEF EInv

LEMMA ExtractSteps == EInv /\ [ExtractNext]_extractVars => EInv'
<1> SUFFICES ASSUME EInv, [ExtractNext]_extractVars PROVE EInv'
  OBVIOUS
<1>1. CASE UNCHANGED extractVars
  <2>1. /\ UNCHANGED <<tree, pc, unread, current, at, inside, helper, helpers, pending,
                       seen, specs, file, loaded>>
    BY <1>1 DEF extractVars
  <2>2. /\ Script' = Script
        /\ \A spec, n : Fits(spec, n) => Fits(spec, n)'
        /\ \A q : Good(q) => Good(q)'
    BY <2>1, SameScript
  <2>3. Types'
    BY <2>1, <2>2 DEF EInv, Types, Working, IsLoop, Found
  <2>4. HelpersFit'
    BY <2>1, <2>2 DEF EInv, HelpersFit, Working
  <2> QED BY <2>1, <2>2, <2>3, <2>4 DEF EInv, FileIsRead
<1>2. CASE ExtractNext
  BY <1>2, ReadScriptKeeps, HelperLineKeeps, HelpersFoundKeeps, CallLineKeeps,
     CallsFoundKeeps, FindLoopKeeps, LoopHelperKeeps, LoopOverKeeps, CollectKeeps,
     FileStepsKeep
  DEF ExtractNext
<1> QED BY <1>1, <1>2

LEMMA EInvHolds == Spec => []EInv
<1>1. Init => EInv
  BY ExtractStarts DEF Init
<1>2. [Next]_manifestVars => [ExtractNext]_extractVars
  BY DEF Next, manifestVars
<1> QED BY <1>1, <1>2, ExtractSteps, PTL DEF Spec

\* In an orderly script a line outside of functions is run, and so is the
\* definition of every function before its calls.
LEMMA FunctionInForce ==
  ASSUME NEW s \in Seq(Lines), Orderly(s), NEW c \in 1 .. Len(s), Is(s, c, "call"),
         NEW b \in Begins(s, s[c].name)
  PROVE  Runs(s, c) /\ b \in InForce(s, c, s[c].name)
<1>0. Len(s) \in Nat /\ \A i \in 1 .. Len(s) : s[i] \in Lines
  BY LenProperties, ElementOfSeq
<1>1. \A i \in 1 .. Len(s) : \A f \in Around(s, i) : s[f].values # {}
  <2> SUFFICES ASSUME NEW i \in 1 .. Len(s), NEW f \in Around(s, i)
               PROVE  s[f].values # {}
    OBVIOUS
  <2>1. f \in {x \in 1 .. Len(s) : Is(s, x, "for")}
    BY <1>0 DEF Around
  <2> QED BY <2>1 DEF Orderly
<1>2. \A d \in {h \in 1 .. Len(s) : Is(s, h, "helper")} : c \notin Body(s, d)
  BY DEF Orderly
<1>3. Runs(s, c)
  BY <1>1, <1>2 DEF Runs
<1>4. s[c].name \in HelperNames
  BY <1>0, LineFields DEF Is
<1>5. \A d \in {h \in 1 .. Len(s) : Is(s, h, "helper")} :
        /\ s[d].name \in HelperNames
        /\ d \in Begins(s, s[d].name)
  BY <1>0, LineFields DEF Is, Begins
<1>6. \A d \in {h \in 1 .. Len(s) : Is(s, h, "helper")} : b \notin Body(s, d)
  BY <1>4, <1>5 DEF Orderly, FunctionsApart
<1>7. b \in 1 .. Len(s)
  BY DEF Begins
<1>8. Runs(s, b)
  BY <1>1, <1>6, <1>7 DEF Runs
<1>9. b < c
  BY DEF Orderly
<1>10. \A d \in Begins(s, s[c].name) : d = b
  BY <1>4 DEF Orderly, FunctionsApart
<1>11. b <= b
  BY <1>7
<1> QED BY <1>3, <1>8, <1>9, <1>10, <1>11 DEF InForce

\* Where nested loops have variables of their own, a call is given what any
\* loop around it has.
LEMMA GivenWhatIsPassed ==
  ASSUME NEW s \in Seq(Lines), Orderly(s), NEW c \in 1 .. Len(s)
  PROVE  Passed(s, c) \subseteq Given(s, c)
<1>0. Len(s) \in Nat
  BY LenProperties
<1> DEFINE over == {f \in Around(s, c) : s[f].var = s[c].arg}
<1>1. CASE s[c].arg \in Values
  BY <1>1 DEF Passed, Given
<1>2. CASE s[c].arg \notin Values
  <2>1. ASSUME NEW f \in over, NEW e \in over, f < e PROVE FALSE
    <3>1. /\ f \in 1 .. c - 1 /\ Is(s, f, "for")
          /\ e \in 1 .. c - 1 /\ Is(s, e, "for")
          /\ \A m \in f .. c : ~Balanced(s, f, m)
      BY DEF Around
    <3>2. f \in 1 .. e - 1 /\ \A m \in f .. e : m \in f .. c
      BY <1>0, <2>1, <3>1
    <3>3. f \in Around(s, e)
      BY <3>1, <3>2 DEF Around
    <3>4. e \in {x \in 1 .. Len(s) : Is(s, x, "for")}
      BY <1>0, <3>1
    <3>5. s[f].var # s[e].var
      BY <3>3, <3>4 DEF Orderly
    <3> QED BY <3>5
  <2>2. \A f \in over : f \in Int
    BY <1>0 DEF Around
  <2>3. over = {g \in over : \A e \in over : e <= g}
    BY <2>1, <2>2
  <2>4. Passed(s, c) = UNION {s[f].values : f \in over}
    BY <1>2 DEF Passed
  <2>5. Given(s, c) = UNION {s[f].values : f \in {g \in over : \A e \in over : e <= g}}
    BY <1>2 DEF Given
  <2> QED BY <2>3, <2>4, <2>5
<1> QED BY <1>1, <1>2

\* What the text of an orderly script speaks of, the shell asks.
LEMMA OrderlyIsAsked ==
  ASSUME NEW s \in Seq(Lines), Orderly(s)
  PROVE  Mentions(s) \subseteq Asks(s)
<1> SUFFICES ASSUME NEW a \in Mentions(s) PROVE a \in Asks(s)
  OBVIOUS
<1>1. PICK c \in 1 .. Len(s) :
        /\ Is(s, c, "call")
        /\ a \in {<<s[w].host, s[w].asks, u>> :
                    w \in {x \in UNION {Body(s, b) : b \in Begins(s, s[c].name)} :
                             Is(s, x, "whois")},
                    u \in Passed(s, c)}
  BY DEF Mentions
<1>2. PICK w \in UNION {Body(s, b) : b \in Begins(s, s[c].name)},
           u \in Passed(s, c) :
        Is(s, w, "whois") /\ a = <<s[w].host, s[w].asks, u>>
  BY <1>1
<1>3. PICK b \in Begins(s, s[c].name) : w \in Body(s, b)
  BY <1>2
<1>4. Runs(s, c) /\ b \in InForce(s, c, s[c].name)
  <2>1. Is(s, c, "call") /\ b \in Begins(s, s[c].name)
    BY <1>1, <1>3
  <2> QED BY <2>1, FunctionInForce, Zenon
<1>5. u \in Given(s, c)
  BY <1>2, GivenWhatIsPassed
<1> DEFINE C == {x \in 1 .. Len(s) : Is(s, x, "call") /\ Runs(s, x)}
           W(x) == {y \in UNION {Body(s, d) : d \in InForce(s, x, s[x].name)} :
                      Is(s, y, "whois")}
           A(x) == {<<s[y].host, s[y].asks, g>> : y \in W(x), g \in Given(s, x)}
<1>6. c \in C /\ w \in W(c)
  BY <1>1, <1>2, <1>3, <1>4
<1>7. a \in A(c)
  BY <1>2, <1>5, <1>6
<1>8. a \in UNION {A(x) : x \in C}
  BY <1>6, <1>7
<1> QED BY <1>8 DEF Asks

\* A query names only mirrors its downloader asks for that kind and value,
\* whatever its script looks like (extract.go 76-133).
THEOREM QueriesAreAskedHolds == Spec => []QueriesAreAsked
<1>1. EInv => QueriesAreAsked
  <2> SUFFICES ASSUME EInv, NEW d \in Downloaders,
                      NEW q \in specs \cup seen, q.downloader = d
               PROVE  /\ q.mirrors # {}
                      /\ q.mirrors \subseteq MirrorsAmong(Mentions(tree[d]), q.kind, q.value)
                      /\ tree[d] # NoScript /\ Orderly(tree[d]) =>
                           q.mirrors \subseteq MirrorsAmong(Asks(tree[d]), q.kind, q.value)
    BY DEF QueriesAreAsked
  <2>1. /\ q.mirrors # {}
        /\ q.mirrors \subseteq MirrorsAmong(Mentions(tree[d]), q.kind, q.value)
    BY DEF EInv, Good, MirrorsMentioned
  <2>2. ASSUME tree[d] # NoScript, Orderly(tree[d])
        PROVE  MirrorsAmong(Mentions(tree[d]), q.kind, q.value)
                 \subseteq MirrorsAmong(Asks(tree[d]), q.kind, q.value)
    <3>1. tree[d] \in Seq(Lines)
      BY <2>2 DEF EInv, Types
    <3>2. Mentions(tree[d]) \subseteq Asks(tree[d])
      BY <2>2, <3>1, OrderlyIsAsked
    <3> QED BY <3>2 DEF MirrorsAmong
  <2> QED BY <2>1, <2>2
<1> QED BY <1>1, EInvHolds, PTL

\* A file that was written to its end is accepted (config.go 60-86).
THEOREM LoadsBackHolds == Spec => []LoadsBack
<1>1. EInv => LoadsBack
  BY DEF EInv, FileIsRead, LoadsBack
<1> QED BY <1>1, EInvHolds, PTL

-----------------------------------------------------------------------------
(* Nothing is left out: the invariant *)

\* The lines of the functions named n that ask what the index can answer.
AskLines(s, n) ==
  {x \in UNION {Body(s, b) : b \in Begins(s, n)} :
     Is(s, x, "whois") /\ s[x].asks \in Kinds}

\* spec has all that the functions named n ask before line l.
Covers(spec, n, l) ==
  \A w \in AskLines(Script, n) :
    w < l => /\ spec.kind = Script[w].asks
             /\ MirrorOf[Script[w].host] \in spec.mirrors

FunctionsRead ==
  IF pc = "helpers"
  THEN /\ \A n \in HelperNames :
            Covers(IF n = inside THEN helper ELSE helpers[n], n, at)
       /\ inside = NoHelper => \A n \in HelperNames : ~InFunction(Script, at, n)
  ELSE \A n \in HelperNames : Covers(helpers[n], n, Len(Script) + 1)

\* The query of helper n for v.
Entry(n, v) ==
  [downloader |-> current, kind |-> helpers[n].kind, value |-> v,
   mirrors |-> helpers[n].mirrors]

Kept(n, values) ==
  \A v \in values :
    n \in Found /\ Accepted(helpers[n].kind, v) => Entry(n, v) \in seen

CallsRead ==
  \A c \in 1 .. Len(Script) :
    /\ pc = "loops" \/ pc = "loop" \/ (pc = "calls" /\ c < at)
    /\ Is(Script, c, "call")
    => Kept(Script[c].name, {Script[c].arg})

LoopsRead ==
  pc \in {"loops", "loop"} =>
    \A f \in 1 .. Len(Script), h \in Found :
      /\ f < at \/ (f = at /\ pc = "loop" /\ h \notin pending)
      /\ IsLoop(f) /\ Matched(h, f)
      => Kept(h, Script[f].values)

\* Every whois command of d that the index can answer has its query.
Caught(d) ==
  Plain(tree[d]) =>
    \A a \in Mentions(tree[d]) :
      (a[2] = "origin" /\ a[3] \in AsNumbers) \/ (a[2] = "mnt-by" /\ a[3] # Empty) =>
        [downloader |-> d, kind |-> a[2], value |-> a[3],
         mirrors |-> MirrorsMentioned(tree[d], a[2], a[3])] \in specs

LInv ==
  /\ Working /\ Plain(Script) => FunctionsRead /\ CallsRead /\ LoopsRead
  /\ \A d \in Downloaders \ unread :
       tree[d] # NoScript /\ ~(Working /\ d = current) => Caught(d)
  /\ pc = "written" => unread = {}

-----------------------------------------------------------------------------
(* Scripts as the repository has them *)

\* A line is in one function at most.
LEMMA OneFunction ==
  ASSUME NEW s, Len(s) \in Nat, Plain(s),
         NEW n \in HelperNames, NEW m \in HelperNames,
         NEW b \in Begins(s, n), NEW c \in Begins(s, m),
         NEW i, i \in Body(s, b), i \in Body(s, c)
  PROVE  n = m /\ b = c
<1>1. /\ b \in 1 .. Len(s) /\ s[b] = [is |-> "helper", name |-> n]
      /\ c \in 1 .. Len(s) /\ s[c] = [is |-> "helper", name |-> m]
  BY DEF Begins
<1>2. /\ i \in b + 1 .. Len(s) /\ \A j \in b + 1 .. i : ~Is(s, j, "end")
      /\ i \in c + 1 .. Len(s) /\ \A j \in c + 1 .. i : ~Is(s, j, "end")
  BY DEF Body
<1>3. ASSUME b < c PROVE FALSE
  <2>1. c \in b + 1 .. Len(s) /\ \A j \in b + 1 .. c : j \in b + 1 .. i
    BY <1>1, <1>2, <1>3
  <2>2. c \in Body(s, b)
    BY <1>2, <2>1 DEF Body
  <2> QED BY <2>2 DEF Plain, FunctionsApart
<1>4. ASSUME c < b PROVE FALSE
  <2>1. b \in c + 1 .. Len(s) /\ \A j \in c + 1 .. b : j \in c + 1 .. i
    BY <1>1, <1>2, <1>4
  <2>2. b \in Body(s, c)
    BY <1>2, <2>1 DEF Body
  <2> QED BY <2>2 DEF Plain, FunctionsApart
<1>5. b = c
  BY <1>1, <1>3, <1>4
<1> QED BY <1>1, <1>5

LEMMA InFunctionIsBody ==
  ASSUME NEW s, Len(s) \in Nat, NEW n, NEW i \in 1 .. Len(s), ~Is(s, i, "end")
  PROVE  InFunction(s, i, n) <=> \E b \in Begins(s, n) : i \in Body(s, b)
<1>1. ASSUME NEW b \in Begins(s, n)
      PROVE  (b < i /\ \A j \in b + 1 .. i - 1 : ~Is(s, j, "end")) <=> i \in Body(s, b)
  <2>1. b \in 1 .. Len(s)
    BY DEF Begins
  <2>2. b < i <=> i \in b + 1 .. Len(s)
    BY <2>1
  <2>3. \A j \in b + 1 .. i : j = i \/ j \in b + 1 .. i - 1
    BY <2>1
  <2>4. \A j \in b + 1 .. i - 1 : j \in b + 1 .. i
    BY <2>1
  <2> QED BY <2>2, <2>3, <2>4 DEF Body
<1> QED BY <1>1 DEF InFunction

LEMMA KindsAskedLines ==
  ASSUME NEW s, NEW n
  PROVE  KindsAsked(s, n) = {s[w].asks : w \in AskLines(s, n)}
BY DEF KindsAsked, AskLines

LEMMA OneKind ==
  ASSUME NEW s, Plain(s), NEW n \in HelperNames,
         NEW k \in KindsAsked(s, n), NEW l \in KindsAsked(s, n)
  PROVE  k = l
<1> SUFFICES ASSUME k # l PROVE FALSE
  OBVIOUS
<1>1. KindsAsked(s, n) \subseteq {"origin", "mnt-by"}
  BY DEF KindsAsked, Kinds
<1>2. KindsAsked(s, n) = {"origin"} \cup {"mnt-by"}
  BY <1>1
<1>3. IsFiniteSet({"origin"}) /\ Cardinality({"origin"}) = 1
  BY FS_Singleton
<1>4. Cardinality({"origin"} \cup {"mnt-by"}) = 2
  BY <1>3, FS_AddElement
<1>5. Cardinality(KindsAsked(s, n)) <= 1
  BY DEF Plain
<1> QED BY <1>2, <1>4, <1>5

\* What is known of a function that asks for something is a kind it asks for.
LEMMA FitsAsked ==
  ASSUME NEW spec, NEW n, Fits(spec, n), spec # NoSpec
  PROVE  spec.kind \in KindsAsked(Script, n)
<1>1. PICK w \in {x \in UNION {Body(Script, b) : b \in Begins(Script, n)} :
                    Is(Script, x, "whois") /\ Script[x].asks = spec.kind} : TRUE
  BY DEF Fits, MirrorsIn
<1> QED BY <1>1 DEF Fits, KindsAsked

\* The mirrors of a query are those of the one function that asks for its kind.
LEMMA MirrorsOfCall ==
  ASSUME NEW s \in Seq(Lines), Plain(s), NEW c \in 1 .. Len(s), Is(s, c, "call"),
         NEW v \in Passed(s, c), NEW k \in KindsAsked(s, s[c].name)
  PROVE  MirrorsMentioned(s, k, v) = MirrorsIn(s, s[c].name, k)
<1>0. \A i \in 1 .. Len(s) : Is(s, i, "call") => s[i].name \in HelperNames
  BY LineFields, ElementOfSeq DEF Is
<1>1. MirrorsIn(s, s[c].name, k) \subseteq MirrorsMentioned(s, k, v)
  BY AskedByCall
<1>2. ASSUME NEW a \in Mentions(s), a[2] = k
      PROVE  MirrorOf[a[1]] \in MirrorsIn(s, s[c].name, k)
  <2>1. PICK d \in 1 .. Len(s) :
          /\ Is(s, d, "call")
          /\ a \in {<<s[w].host, s[w].asks, u>> :
                      w \in {x \in UNION {Body(s, b) : b \in Begins(s, s[d].name)} :
                               Is(s, x, "whois")},
                      u \in Passed(s, d)}
    BY DEF Mentions
  <2>2. PICK w \in UNION {Body(s, b) : b \in Begins(s, s[d].name)},
             u \in Passed(s, d) :
          Is(s, w, "whois") /\ a = <<s[w].host, s[w].asks, u>>
    BY <2>1
  <2>3. a[1] = s[w].host /\ s[w].asks = k
    BY <1>2, <2>2
  <2>4. k \in KindsAsked(s, s[d].name)
    BY <2>2, <2>3 DEF KindsAsked
  <2>5. s[d].name = s[c].name
    BY <1>0, <2>1, <2>4 DEF Plain
  <2> QED BY <2>2, <2>3, <2>5 DEF MirrorsIn
<1>3. MirrorsMentioned(s, k, v) \subseteq MirrorsIn(s, s[c].name, k)
  BY <1>2 DEF MirrorsMentioned, MirrorsAmong
<1> QED BY <1>1, <1>3

-----------------------------------------------------------------------------
(* The functions of such a script *)

\* A line that asks is in the function the pass is in.
LEMMA AskedHere ==
  ASSUME EInv, pc = "helpers", Plain(Script), at <= Len(Script), FunctionsRead,
         NEW n \in HelperNames, at \in AskLines(Script, n)
  PROVE  inside = n
<1>1. /\ at \in 1 .. Len(Script) /\ Len(Script) \in Nat
  BY LineRead DEF Working
<1>2. PICK b \in Begins(Script, n) : at \in Body(Script, b)
  BY DEF AskLines
<1>3. ~Is(Script, at, "end")
  BY DEF AskLines, Is
<1>4. inside # NoHelper
  BY <1>1, <1>2, <1>3, InFunctionIsBody DEF FunctionsRead
<1>5. inside \in HelperNames /\ InFunction(Script, at, inside)
  BY <1>4 DEF EInv, HelpersFit, Types
<1>6. PICK c \in Begins(Script, inside) : at \in Body(Script, c)
  BY <1>1, <1>3, <1>5, InFunctionIsBody
<1> QED BY <1>1, <1>2, <1>5, <1>6, OneFunction

\* What is known of every function when the pass is at this line.
SpecOf(n) == IF n = inside THEN helper ELSE helpers[n]

\* A function that asked for nothing has nothing to be kept.
LEMMA WithHelperCovers ==
  ASSUME EInv, pc = "helpers", inside # NoHelper, NEW n \in HelperNames, NEW l,
         Covers(SpecOf(n), n, l)
  PROVE  Covers(WithHelper[n], n, l)
<1>1. inside \in HelperNames /\ helpers \in [HelperNames -> Specs]
  BY DEF EInv, Types
<1>2. CASE n # inside
  BY <1>1, <1>2 DEF WithHelper, SpecOf
<1>3. CASE n = inside /\ helper.kind # "none"
  BY <1>1, <1>3 DEF WithHelper, SpecOf
<1>4. CASE n = inside /\ helper.kind = "none"
  <2>1. \A w \in AskLines(Script, n) : ~(w < l)
    BY <1>4 DEF SpecOf, Covers, AskLines, Kinds
  <2> QED BY <2>1 DEF Covers
<1> QED BY <1>2, <1>3, <1>4

LEMMA HelperLineCovers ==
  ASSUME EInv, Plain(Script), FunctionsRead, HelperLine
  PROVE  FunctionsRead'
<1> DEFINE line == Script[at]
<1>1. /\ pc = "helpers" /\ pc' = "helpers" /\ at <= Len(Script) /\ at' = at + 1
      /\ UNCHANGED <<tree, current, unread>>
  BY DEF HelperLine
<1>2. /\ Script' = Script /\ at \in 1 .. Len(Script) /\ Len(Script) \in Nat
      /\ line \in Lines /\ NoHelper \notin HelperNames
      /\ inside \in HelperNames \cup {NoHelper} /\ helpers \in [HelperNames -> Specs]
  BY <1>1, LineRead, SameScript, ScriptsAssumption
     DEF Working, ScriptsAssumption, EInv, Types
<1>3. \A n \in HelperNames : Covers(SpecOf(n), n, at)
  BY <1>1 DEF FunctionsRead, SpecOf
<1>4. ASSUME NEW n \in HelperNames, NEW w \in AskLines(Script, n)
      PROVE  /\ w < at + 1 <=> w < at \/ w = at
             /\ w = at => inside = n /\ line.is = "whois" /\ line.asks \in Kinds
  <2>1. w \in Nat /\ at \in Nat
    BY <1>2 DEF AskLines, Body, Begins
  <2>2. w = at => inside = n
    BY <1>1, AskedHere
  <2> QED BY <2>1, <2>2 DEF AskLines, Is
\* It is enough to cover this line, and to be outside where nothing is open.
<1>5. ASSUME \A n \in HelperNames : Covers(SpecOf(n)', n, at + 1),
             inside' = NoHelper => \A n \in HelperNames : ~InFunction(Script, at + 1, n)
      PROVE  FunctionsRead'
  <2>1. \A n \in HelperNames : (Covers(SpecOf(n), n, at))'
    BY <1>1, <1>2, <1>5 DEF Covers
  <2> QED BY <1>1, <1>2, <1>5, <2>1 DEF FunctionsRead, SpecOf
<1>6. ASSUME NEW n \in HelperNames, ~InFunction(Script, at, n),
             line.is # "helper"
      PROVE  ~InFunction(Script, at + 1, n)
  <2> SUFFICES ASSUME InFunction(Script, at + 1, n) PROVE FALSE
    OBVIOUS
  <2>1. PICK b \in Begins(Script, n) :
          b < at + 1 /\ \A j \in b + 1 .. (at + 1) - 1 : ~Is(Script, j, "end")
    BY DEF InFunction
  <2>2. b \in Nat /\ b # at
    BY <1>6 DEF Begins
  <2>3. b < at /\ \A j \in b + 1 .. at - 1 : j \in b + 1 .. (at + 1) - 1
    BY <1>2, <2>1, <2>2
  <2> QED BY <1>6, <2>1, <2>3 DEF InFunction
<1>7. CASE inside = NoHelper /\ line.is = "helper"
  <2>1. inside' = line.name /\ helper' = NoSpec /\ helpers' = helpers
    BY <1>7 DEF HelperLine
  <2>2. line.name \in HelperNames /\ line = [is |-> "helper", name |-> line.name]
    BY <1>2, <1>7, LineFields
  <2>3. at \in Begins(Script, line.name)
    BY <1>2, <2>2 DEF Begins
  <2>4. ASSUME NEW n \in HelperNames PROVE Covers(SpecOf(n)', n, at + 1)
    <3>1. CASE n # line.name
      <4>1. SpecOf(n)' = SpecOf(n)
        BY <1>2, <1>7, <2>1, <3>1 DEF SpecOf
      <4> QED BY <1>3, <1>4, <1>7, <4>1 DEF Covers
    <3>2. CASE n = line.name
      <4>1. ASSUME NEW w \in AskLines(Script, n) PROVE ~(w < at + 1)
        <5>1. PICK b \in Begins(Script, n) : w \in Body(Script, b)
          BY DEF AskLines
        <5>2. b = at
          BY <2>3, <3>2, <5>1 DEF Plain, FunctionsApart
        <5>3. w \in at + 1 .. Len(Script)
          BY <5>1, <5>2 DEF Body
        <5> QED BY <1>2, <5>3
      <4> QED BY <4>1 DEF Covers
    <3> QED BY <3>1, <3>2
  <2> QED BY <1>2, <1>5, <2>1, <2>2, <2>4
<1>8. CASE inside # NoHelper /\ line.is = "end"
  <2>1. inside' = NoHelper /\ helper' = helper /\ helpers' = WithHelper
    BY <1>8 DEF HelperLine, Asking
  <2>2. ASSUME NEW n \in HelperNames PROVE Covers(SpecOf(n)', n, at + 1)
    <3>1. Covers(SpecOf(n), n, at + 1)
      BY <1>3, <1>4, <1>8 DEF Covers
    <3>2. SpecOf(n)' = WithHelper[n]
      BY <1>2, <2>1 DEF SpecOf
    <3> QED BY <1>1, <1>8, <3>1, <3>2, WithHelperCovers
  <2>3. ASSUME NEW n \in HelperNames PROVE ~InFunction(Script, at + 1, n)
    <3> SUFFICES ASSUME InFunction(Script, at + 1, n) PROVE FALSE
      OBVIOUS
    <3>1. PICK b \in Begins(Script, n) :
            b < at + 1 /\ \A j \in b + 1 .. (at + 1) - 1 : ~Is(Script, j, "end")
      BY DEF InFunction
    <3>2. b \in Nat /\ b # at
      BY <1>8 DEF Begins
    <3>3. at \in b + 1 .. (at + 1) - 1
      BY <1>2, <3>1, <3>2
    <3> QED BY <1>8, <3>1, <3>3 DEF Is
  <2> QED BY <1>5, <2>2, <2>3
<1>9. CASE inside # NoHelper /\ Asking(line)
  <2>1. /\ line.is = "whois" /\ line.asks \in Kinds /\ helper.kind \in {"none", line.asks}
        /\ inside' = inside /\ helpers' = helpers
        /\ helper' = [kind |-> line.asks,
                      mirrors |-> helper.mirrors \cup {MirrorOf[line.host]}]
    BY <1>9 DEF HelperLine, Asking
  <2>2. ASSUME NEW n \in HelperNames, n # inside PROVE Covers(SpecOf(n)', n, at + 1)
    <3>1. SpecOf(n)' = SpecOf(n)
      BY <2>1, <2>2 DEF SpecOf
    <3> QED BY <1>3, <1>4, <2>2, <3>1 DEF Covers
  <2>3. ASSUME NEW w \in AskLines(Script, inside), w < at + 1
        PROVE  helper'.kind = Script[w].asks /\ MirrorOf[Script[w].host] \in helper'.mirrors
    <3>1. inside \in HelperNames
      BY <1>2, <1>9
    <3>2. CASE w = at
      BY <2>1, <3>2
    <3>3. CASE w < at
      <4>1. helper.kind = Script[w].asks /\ MirrorOf[Script[w].host] \in helper.mirrors
        BY <1>3, <3>1, <3>3 DEF Covers, SpecOf
      <4>2. Script[w].asks # "none"
        BY DEF AskLines, Kinds
      <4> QED BY <2>1, <4>1, <4>2
    <3> QED BY <1>4, <2>3, <3>1, <3>2, <3>3
  <2>4. ASSUME NEW n \in HelperNames PROVE Covers(SpecOf(n)', n, at + 1)
    <3>1. CASE n = inside
      <4>1. SpecOf(n)' = helper'
        BY <2>1, <3>1 DEF SpecOf
      <4> QED BY <2>3, <3>1, <4>1 DEF Covers
    <3> QED BY <2>2, <3>1
  <2> QED BY <1>5, <1>9, <2>1, <2>4
<1>10. CASE IF inside = NoHelper THEN line.is # "helper"
            ELSE line.is # "end" /\ ~Asking(line)
  <2>1. UNCHANGED <<inside, helper, helpers>>
    BY <1>10 DEF HelperLine
  <2>2. ASSUME NEW n \in HelperNames, at \in AskLines(Script, n) PROVE FALSE
    <3>1. inside = n /\ line.is = "whois" /\ line.asks \in Kinds /\ ~Asking(line)
      BY <1>2, <1>4, <1>10, <2>2
    <3>2. helper.kind \notin {"none", line.asks} /\ Fits(helper, n)
      BY <1>1, <1>2, <3>1 DEF Asking, EInv, HelpersFit
    <3>3. helper # NoSpec
      BY <3>2 DEF NoSpec
    <3>4. helper.kind \in KindsAsked(Script, n)
      BY <3>2, <3>3, FitsAsked
    <3>5. line.asks \in KindsAsked(Script, n)
      BY <2>2, KindsAskedLines
    <3> QED BY <3>2, <3>4, <3>5, OneKind
  <2>3. ASSUME NEW n \in HelperNames PROVE Covers(SpecOf(n)', n, at + 1)
    <3>1. SpecOf(n)' = SpecOf(n)
      BY <2>1 DEF SpecOf
    <3> QED BY <1>3, <1>4, <2>2, <3>1 DEF Covers
  <2>4. inside' = NoHelper => \A n \in HelperNames : ~InFunction(Script, at + 1, n)
    BY <1>1, <1>6, <1>10, <2>1 DEF FunctionsRead
  <2> QED BY <1>5, <2>3, <2>4
<1> QED BY <1>7, <1>8, <1>9, <1>10 DEF HelperLine

LEMMA HelpersFoundCovers ==
  ASSUME EInv, Plain(Script), FunctionsRead, HelpersFound
  PROVE  FunctionsRead' /\ CallsRead' /\ LoopsRead'
<1>1. /\ pc = "helpers" /\ pc' = "calls" /\ at > Len(Script) /\ at' = 1
      /\ helpers' = IF inside = NoHelper THEN helpers ELSE WithHelper
      /\ UNCHANGED <<tree, current, unread>>
  BY DEF HelpersFound
<1>2. /\ Script' = Script /\ Len(Script) \in Nat /\ at \in Nat
      /\ NoHelper \notin HelperNames
  BY <1>1, SameScript, LenProperties, ScriptsAssumption
     DEF ScriptsAssumption, EInv, Types, Working
<1>3. ASSUME NEW n \in HelperNames PROVE Covers(helpers'[n], n, Len(Script) + 1)
  <2>1. Covers(SpecOf(n), n, Len(Script) + 1)
    <3>1. Covers(SpecOf(n), n, at)
      BY <1>1 DEF FunctionsRead, SpecOf
    <3>2. \A w \in AskLines(Script, n) : w < at
      <4> TAKE w \in AskLines(Script, n)
      <4>1. w <= Len(Script) /\ w \in Int
        BY <1>2 DEF AskLines, Body, Begins
      <4> QED BY <1>1, <1>2, <4>1
    <3> QED BY <3>1, <3>2 DEF Covers
  <2> QED BY <1>1, <1>2, <2>1, WithHelperCovers DEF SpecOf
<1>4. FunctionsRead'
  <2>1. \A n \in HelperNames : (Covers(helpers[n], n, Len(Script) + 1))'
    BY <1>2, <1>3 DEF Covers
  <2> QED BY <1>1, <2>1 DEF FunctionsRead
<1>5. \A c \in 1 .. Len(Script) : ~(c < 1)
  BY <1>2
<1> QED BY <1>1, <1>2, <1>4, <1>5 DEF CallsRead, LoopsRead

\* After the first pass every function that asks is known with all its mirrors.
LEMMA FunctionIsFound ==
  ASSUME EInv, pc \in {"calls", "loops", "loop"}, FunctionsRead,
         NEW n \in HelperNames, NEW k \in KindsAsked(Script, n)
  PROVE  /\ n \in Found /\ helpers[n].kind = k
         /\ helpers[n].mirrors = MirrorsIn(Script, n, k)
<1>1. /\ Covers(helpers[n], n, Len(Script) + 1) /\ Fits(helpers[n], n)
      /\ Len(Script) \in Nat
  BY LenProperties DEF FunctionsRead, EInv, HelpersFit, Types, Working
<1>2. k \in Kinds /\ k # "none"
  BY DEF KindsAsked, Kinds
<1>3. ASSUME NEW w \in AskLines(Script, n)
      PROVE  helpers[n].kind = Script[w].asks /\ MirrorOf[Script[w].host] \in helpers[n].mirrors
  <2>1. w \in Int /\ w <= Len(Script)
    BY <1>1 DEF AskLines, Body, Begins
  <2> QED BY <1>1, <2>1 DEF Covers
<1>4. helpers[n].kind = k
  BY <1>3, KindsAskedLines
<1>5. helpers[n] # NoSpec
  BY <1>2, <1>4 DEF NoSpec
<1>6. MirrorsIn(Script, n, k) \subseteq helpers[n].mirrors
  <2> SUFFICES ASSUME NEW w \in UNION {Body(Script, b) : b \in Begins(Script, n)},
                      Is(Script, w, "whois"), Script[w].asks = k
               PROVE  MirrorOf[Script[w].host] \in helpers[n].mirrors
    BY DEF MirrorsIn
  <2> QED BY <1>2, <1>3 DEF AskLines
<1> QED BY <1>1, <1>4, <1>5, <1>6 DEF Fits, Found

\* No two functions found ask for the same kind.
LEMMA FoundApart ==
  ASSUME EInv, Working, Plain(Script), NEW h \in Found, NEW n \in Found,
         helpers[h].kind = helpers[n].kind
  PROVE  h = n
<1>1. /\ helpers[h].kind \in KindsAsked(Script, h)
      /\ helpers[n].kind \in KindsAsked(Script, n)
  BY FitsAsked DEF EInv, HelpersFit, Found
<1> QED BY <1>1 DEF Plain, Found

\* What a helper asks does not take the place of what another asks.
LEMMA AddedKeeps ==
  ASSUME EInv, Working, Plain(Script), NEW h \in Found, NEW values
  PROVE  /\ \A n \in Found : \A v :
              Entry(n, v) \in seen => Entry(n, v) \in Added(h, values)
         /\ \A v \in values :
              Accepted(helpers[h].kind, v) => Entry(h, v) \in Added(h, values)
<1> DEFINE new == {Entry(h, v) : v \in {w \in values : Accepted(helpers[h].kind, w)}}
<1>1. Added(h, values) =
        {q \in seen : \A e \in new : e.kind # q.kind \/ e.value # q.value} \cup new
  BY DEF Added, Entry
<1>2. ASSUME NEW n \in Found, NEW v, Entry(n, v) \in seen
      PROVE  Entry(n, v) \in Added(h, values)
  <2>1. CASE \A e \in new : e.kind # Entry(n, v).kind \/ e.value # Entry(n, v).value
    BY <1>1, <1>2, <2>1
  <2>2. ASSUME NEW e \in new, e.kind = Entry(n, v).kind, e.value = Entry(n, v).value
        PROVE  Entry(n, v) \in Added(h, values)
    <3>1. PICK w \in values : Accepted(helpers[h].kind, w) /\ e = Entry(h, w)
      OBVIOUS
    <3>2. w = v /\ helpers[h].kind = helpers[n].kind
      BY <2>2, <3>1 DEF Entry
    <3>3. h = n
      BY <3>2, FoundApart
    <3> QED BY <1>1, <3>1, <3>2, <3>3
  <2> QED BY <2>1, <2>2
<1> QED BY <1>1, <1>2

-----------------------------------------------------------------------------
(* The loops of such a script *)

LEMMA LoopsApart ==
  ASSUME Script \in Seq(Lines), Plain(Script), NEW f \in 1 .. Len(Script),
         Is(Script, f, "for")
  PROVE  /\ IsLoop(f) /\ DoneAfter(f) \in f + 1 .. Len(Script)
         /\ Is(Script, DoneAfter(f), "done")
         /\ \A i \in f + 1 .. DoneAfter(f) - 1 : ~Is(Script, i, "done")
         /\ \A i \in f + 1 .. DoneAfter(f) : ~Is(Script, i, "for")
<1>0. Len(Script) \in Nat
  BY LenProperties
<1>1. PICK e \in f + 1 .. Len(Script) :
        Is(Script, e, "done") /\ \A g \in f + 1 .. e : ~Is(Script, g, "for")
  BY DEF Plain
<1>2. \E d \in f + 1 .. Len(Script) :
        /\ Script[d].is = "done"
        /\ \A i \in f + 1 .. d - 1 : Script[i].is # "done"
  BY <1>1, FirstDone DEF Is
<1>3. PICK d : d = DoneAfter(f)
  OBVIOUS
<1>4. /\ d \in f + 1 .. Len(Script) /\ Script[d].is = "done"
      /\ \A i \in f + 1 .. d - 1 : Script[i].is # "done"
  BY <1>2, <1>3 DEF DoneAfter
<1>5. ~(e < d)
  BY <1>0, <1>1, <1>4 DEF Is
<1>6. \A i \in f + 1 .. d : i \in f + 1 .. e
  BY <1>0, <1>1, <1>4, <1>5
<1> QED BY <1>1, <1>3, <1>4, <1>6 DEF IsLoop, Is

\* The shell is in a loop as long as its first "done" is to come.
LEMMA AroundIsBeforeDone ==
  ASSUME Script \in Seq(Lines), Plain(Script), NEW i \in 1 .. Len(Script),
         NEW f \in Around(Script, i)
  PROVE  f \in 1 .. Len(Script) /\ Is(Script, f, "for") /\ i \in f + 1 .. DoneAfter(f) - 1
<1>0. /\ Len(Script) \in Nat /\ f \in 1 .. i - 1 /\ f \in 1 .. Len(Script)
      /\ Is(Script, f, "for") /\ \A m \in f .. i : ~Balanced(Script, f, m)
  BY LenProperties DEF Around
<1>1. PICK d : d = DoneAfter(f)
  OBVIOUS
<1>2. /\ d \in f + 1 .. Len(Script) /\ Is(Script, d, "done")
      /\ \A j \in f + 1 .. d - 1 : ~Is(Script, j, "done")
      /\ \A j \in f + 1 .. d : ~Is(Script, j, "for")
  BY <1>0, <1>1, LoopsApart
<1>3. {x \in f .. d : Is(Script, x, "for")} = {f}
  <2>1. \A x \in f .. d : x = f \/ x \in f + 1 .. d
    BY <1>0, <1>2
  <2>2. f \in f .. d
    BY <1>0, <1>2
  <2> QED BY <1>0, <1>2, <2>1, <2>2
<1>4. {x \in f .. d : Is(Script, x, "done")} = {d}
  <2>1. \A x \in f .. d : x = f \/ x = d \/ x \in f + 1 .. d - 1
    BY <1>0, <1>2
  <2>2. d \in f .. d
    BY <1>0, <1>2
  <2>3. ~Is(Script, f, "done")
    BY <1>0 DEF Is
  <2> QED BY <1>2, <2>1, <2>2, <2>3
<1>5. Cardinality({f}) = 1 /\ Cardinality({d}) = 1
  BY FS_Singleton
<1>6. Balanced(Script, f, d)
  BY <1>3, <1>4, <1>5 DEF Balanced
<1>7. ~(d \in f .. i)
  BY <1>0, <1>6
<1> QED BY <1>0, <1>1, <1>2, <1>7

\* A value is passed on as it stands or by a loop that is matched.
LEMMA PassedIsFound ==
  ASSUME Script \in Seq(Lines), Plain(Script), NEW c \in 1 .. Len(Script),
         Is(Script, c, "call"), NEW v \in Passed(Script, c)
  PROVE  \/ v = Script[c].arg
         \/ \E f \in 1 .. Len(Script) : /\ Is(Script, f, "for") /\ v \in Script[f].values
                                        /\ Matched(Script[c].name, f)
<1>1. CASE Script[c].arg \in Values
  BY <1>1 DEF Passed
<1>2. CASE Script[c].arg \notin Values
  <2>1. PICK f \in Around(Script, c) :
          Script[f].var = Script[c].arg /\ v \in Script[f].values
    BY <1>2 DEF Passed
  <2>2. /\ f \in 1 .. Len(Script) /\ Is(Script, f, "for")
        /\ c \in f + 1 .. DoneAfter(f) - 1
    BY AroundIsBeforeDone
  <2>3. Script[c] = [is |-> "call", name |-> Script[c].name, arg |-> Script[f].var]
    <3>1. Script[c] \in [is : {"call"}, name : HelperNames, arg : Values \cup Variables]
      BY ElementOfSeq DEF Lines, Is
    <3> QED BY <2>1, <3>1
  <2>4. Matched(Script[c].name, f)
    BY <2>2, <2>3 DEF Matched
  <2> QED BY <2>1, <2>2, <2>4
<1> QED BY <1>1, <1>2

-----------------------------------------------------------------------------
(* The calls and the loops *)

\* What an Added keeps of the calls and loops that were read.
LEMMA KeptOn ==
  ASSUME EInv, Working, Plain(Script), NEW h \in Found, NEW values,
         seen' = Added(h, values), UNCHANGED <<current, helpers>>
  PROVE  /\ \A n : \A V : Kept(n, V) => Kept(n, V)'
         /\ Kept(h, values)'
<1>1. Found' = Found /\ \A n, v : Entry(n, v)' = Entry(n, v)
  BY DEF Found, Entry
<1>2. ASSUME NEW n, NEW V, Kept(n, V) PROVE Kept(n, V)'
  BY <1>1, <1>2, AddedKeeps DEF Kept
<1>3. Kept(h, values)'
  BY <1>1, AddedKeeps DEF Kept
<1> QED BY <1>2, <1>3

LEMMA LoopFactsKept ==
  ASSUME UNCHANGED <<tree, current, helpers>>
  PROVE  /\ Script' = Script /\ Found' = Found
         /\ \A f : IsLoop(f)' = IsLoop(f) /\ DoneAfter(f)' = DoneAfter(f)
         /\ \A h, f : Matched(h, f)' = Matched(h, f)
         /\ \A spec, n, l : Covers(spec, n, l)' = Covers(spec, n, l)
BY DEF Script, Found, IsLoop, DoneAfter, Matched, Covers

\* Where seen stays as well.
LEMMA KeptStays ==
  ASSUME UNCHANGED <<current, helpers, seen>>
  PROVE  \A n : \A V : Kept(n, V) => Kept(n, V)'
<1>1. Found' = Found /\ \A n, v : Entry(n, v)' = Entry(n, v)
  BY DEF Found, Entry
<1> QED BY <1>1 DEF Kept

LEMMA FunctionsStay ==
  ASSUME UNCHANGED <<tree, current, helpers>>, FunctionsRead,
         pc # "helpers", pc' # "helpers"
  PROVE  FunctionsRead'
<1>1. Script' = Script
  BY DEF Script
<1>2. \A n \in HelperNames : (Covers(helpers[n], n, Len(Script) + 1))'
  BY <1>1 DEF FunctionsRead, Covers
<1> QED BY <1>2 DEF FunctionsRead

LEMMA CallLineKept ==
  ASSUME EInv, Plain(Script), FunctionsRead, CallsRead, CallLine
  PROVE  FunctionsRead' /\ CallsRead' /\ LoopsRead'
<1>1. /\ pc = "calls" /\ pc' = "calls" /\ at <= Len(Script) /\ at' = at + 1
      /\ UNCHANGED <<tree, current, helpers>>
      /\ seen' = IF Script[at].is = "call" /\ Script[at].name \in Found
                 THEN Added(Script[at].name, {Script[at].arg}) ELSE seen
  BY DEF CallLine
<1>2. /\ Working /\ at \in 1 .. Len(Script) /\ Len(Script) \in Nat /\ Script' = Script
      /\ Found' = Found
  BY <1>1, LineRead, LoopFactsKept DEF Working
<1>c. PICK c0 : c0 = at
  OBVIOUS
<1>n. PICK n0 : n0 = Script[c0].name
  OBVIOUS
<1>V. PICK V0 : V0 = {Script[c0].arg}
  OBVIOUS
<1>3. /\ \A n : \A V : Kept(n, V) => Kept(n, V)'
      /\ Is(Script, c0, "call") => Kept(n0, V0)'
  <2>1. CASE Is(Script, c0, "call") /\ n0 \in Found
    <3>1. seen' = Added(n0, V0)
      BY <1>1, <1>c, <1>n, <1>V, <2>1 DEF Is
    <3> QED BY <1>1, <1>2, <2>1, <3>1, KeptOn
  <2>2. CASE ~(Is(Script, c0, "call") /\ n0 \in Found)
    <3>1. seen' = seen
      BY <1>1, <1>c, <1>n, <2>2 DEF Is
    <3>2. \A n : \A V : Kept(n, V) => Kept(n, V)'
      BY <1>1, <3>1, KeptStays
    <3>3. n0 \notin Found => Kept(n0, V0)'
      BY <1>2 DEF Kept
    <3> QED BY <2>2, <3>2, <3>3
  <2> QED BY <2>1, <2>2
<1>4. CallsRead'
  <2> SUFFICES ASSUME NEW c \in 1 .. Len(Script), c < c0 + 1, Is(Script, c, "call")
               PROVE  Kept(Script[c].name, {Script[c].arg})'
    BY <1>1, <1>2, <1>c DEF CallsRead
  <2>1. PICK n : n = Script[c].name
    OBVIOUS
  <2>2. PICK V : V = {Script[c].arg}
    OBVIOUS
  <2>3. c < c0 \/ c = c0
    BY <1>2, <1>c
  <2>4. Kept(n, V)'
    <3>1. CASE c < c0
      <4>1. Kept(n, V)
        BY <1>1, <1>c, <2>1, <2>2, <3>1 DEF CallsRead
      <4> QED BY <1>3, <4>1
    <3>2. CASE c = c0
      BY <1>3, <1>n, <1>V, <2>1, <2>2, <3>2
    <3> QED BY <2>3, <3>1, <3>2
  <2>5. Script'[c].name = n /\ {Script'[c].arg} = V
    BY <1>2, <2>1, <2>2
  <2> QED BY <2>4, <2>5
<1>5. LoopsRead'
  BY <1>1 DEF LoopsRead
<1> QED BY <1>1, <1>4, <1>5, FunctionsStay

LEMMA CallsStay ==
  ASSUME UNCHANGED <<tree, current, helpers>>, CallsRead, pc' \in {"loops", "loop"},
         pc \in {"loops", "loop"} \/ (pc = "calls" /\ \A c \in 1 .. Len(Script) : c < at),
         \A n : \A V : Kept(n, V) => Kept(n, V)'
  PROVE  CallsRead'
<1>1. Script' = Script
  BY DEF Script
<1> SUFFICES ASSUME NEW c \in 1 .. Len(Script), Is(Script, c, "call")
             PROVE  Kept(Script[c].name, {Script[c].arg})'
  BY <1>1 DEF CallsRead
<1>2. PICK n : n = Script[c].name
  OBVIOUS
<1>3. PICK V : V = {Script[c].arg}
  OBVIOUS
<1>4. Kept(n, V)
  BY <1>2, <1>3 DEF CallsRead
<1>5. Kept(n, V)'
  BY <1>4
<1>6. Script'[c].name = n /\ {Script'[c].arg} = V
  BY <1>1, <1>2, <1>3
<1> QED BY <1>5, <1>6

\* The loops that are over, and the helpers the loop at this line is over with.
LoopOf(f, h) == f < at \/ (f = at /\ pc = "loop" /\ h \notin pending)

LEMMA LoopsStay ==
  ASSUME UNCHANGED <<tree, current, helpers>>, LoopsRead,
         pc \in {"loops", "loop"} \/ \A f \in 1 .. Len(Script), h \in Found : ~LoopOf(f, h)',
         \A n : \A V : Kept(n, V) => Kept(n, V)',
         \A f \in 1 .. Len(Script), h \in Found :
           LoopOf(f, h)' /\ IsLoop(f) /\ Matched(h, f) =>
             LoopOf(f, h) \/ \E V : V = Script[f].values /\ Kept(h, V)'
  PROVE  LoopsRead'
<1>1. /\ Script' = Script /\ Found' = Found
      /\ \A f : IsLoop(f)' = IsLoop(f)
      /\ \A h, f : Matched(h, f)' = Matched(h, f)
  BY LoopFactsKept
<1> SUFFICES ASSUME NEW f \in 1 .. Len(Script), NEW h \in Found,
                    LoopOf(f, h)', IsLoop(f), Matched(h, f)
             PROVE  Kept(h, Script[f].values)'
  BY <1>1 DEF LoopsRead, LoopOf
<1>2. PICK V : V = Script[f].values
  OBVIOUS
<1>3. Kept(h, V)'
  <2>1. CASE LoopOf(f, h)
    <3>1. Kept(h, V)
      BY <1>2, <2>1 DEF LoopsRead, LoopOf
    <3> QED BY <3>1
  <2>2. CASE ~LoopOf(f, h)
    <3>1. PICK W : W = Script[f].values /\ Kept(h, W)'
      BY <2>2
    <3>2. W = V
      BY <1>2, <3>1
    <3> QED BY <3>1, <3>2
  <2> QED BY <2>1, <2>2
<1>4. Script'[f].values = V
  BY <1>1, <1>2
<1> QED BY <1>3, <1>4

LEMMA CallsFoundKept ==
  ASSUME EInv, Plain(Script), FunctionsRead, CallsRead, LoopsRead, CallsFound
  PROVE  FunctionsRead' /\ CallsRead' /\ LoopsRead'
<1>1. /\ pc = "calls" /\ pc' = "loops" /\ at > Len(Script) /\ at' = 1
      /\ UNCHANGED <<tree, current, helpers, seen>>
  BY DEF CallsFound, scriptVars
<1>2. Len(Script) \in Nat /\ at \in Nat
  BY <1>1, LenProperties DEF EInv, Types, Working
<1>3. \A n : \A V : Kept(n, V) => Kept(n, V)'
  BY <1>1, KeptStays
<1>4. CallsRead'
  BY <1>1, <1>2, <1>3, CallsStay
<1>5. \A f \in 1 .. Len(Script), h \in Found : ~LoopOf(f, h)'
  BY <1>1, <1>2 DEF LoopOf
<1>6. LoopsRead'
  BY <1>1, <1>3, <1>5, LoopsStay
<1> QED BY <1>1, <1>4, <1>6, FunctionsStay

LEMMA FindLoopKept ==
  ASSUME EInv, Plain(Script), FunctionsRead, CallsRead, LoopsRead, FindLoop
  PROVE  FunctionsRead' /\ CallsRead' /\ LoopsRead'
<1>1. /\ pc = "loops" /\ pc' = "loop" /\ pending' = Found
      /\ UNCHANGED <<tree, current, helpers, seen>>
  BY DEF FindLoop
<1>2. PICK f0 \in at .. Len(Script) :
        IsLoop(f0) /\ (\A i \in at .. f0 - 1 : ~IsLoop(i)) /\ at' = f0
  BY DEF FindLoop
<1>3. \A n : \A V : Kept(n, V) => Kept(n, V)'
  BY <1>1, KeptStays
<1>4. Found' = Found /\ at \in Nat \ {0} /\ Len(Script) \in Nat
  BY <1>1, LoopFactsKept, LenProperties DEF EInv, Types, Working
<1>5. ASSUME NEW f \in 1 .. Len(Script), NEW h \in Found, LoopOf(f, h)', IsLoop(f)
      PROVE  LoopOf(f, h)
  <2>1. f < f0
    BY <1>1, <1>2, <1>5 DEF LoopOf
  <2>2. ~(f \in at .. f0 - 1)
    BY <1>2, <1>5
  <2>3. f < at
    BY <1>2, <1>4, <2>1, <2>2
  <2> QED BY <2>3 DEF LoopOf
<1>6. LoopsRead'
  BY <1>1, <1>3, <1>5, LoopsStay
<1>7. CallsRead'
  BY <1>1, <1>3, CallsStay
<1> QED BY <1>1, <1>6, <1>7, FunctionsStay

LEMMA LoopHelperKept ==
  ASSUME EInv, Plain(Script), FunctionsRead, CallsRead, LoopsRead,
         NEW h0 \in pending, LoopHelper(h0)
  PROVE  FunctionsRead' /\ CallsRead' /\ LoopsRead'
<1>1. /\ pc = "loop" /\ pc' = "loop" /\ at' = at /\ pending' = pending \ {h0}
      /\ seen' = IF Matched(h0, at) THEN Added(h0, Script[at].values) ELSE seen
      /\ UNCHANGED <<tree, current, helpers>>
  BY DEF LoopHelper
<1>2. Working /\ h0 \in Found /\ at \in Nat
  BY <1>1 DEF Working, EInv, Types
<1>3. PICK V0 : V0 = Script[at].values
  OBVIOUS
<1>4. (\A n : \A V : Kept(n, V) => Kept(n, V)') /\ (Matched(h0, at) => Kept(h0, V0)')
  <2>1. CASE Matched(h0, at)
    BY <1>1, <1>2, <1>3, <2>1, KeptOn
  <2>2. CASE ~Matched(h0, at)
    BY <1>1, <2>2, KeptStays
  <2> QED BY <2>1, <2>2
<1>5. ASSUME NEW f \in 1 .. Len(Script), NEW h \in Found, LoopOf(f, h)', Matched(h, f)
      PROVE  LoopOf(f, h) \/ \E V : V = Script[f].values /\ Kept(h, V)'
  <2>1. CASE f = at /\ h = h0
    BY <1>3, <1>4, <1>5, <2>1
  <2>2. CASE ~(f = at /\ h = h0)
    BY <1>1, <1>5, <2>2 DEF LoopOf
  <2> QED BY <2>1, <2>2
<1>6. LoopsRead'
  BY <1>1, <1>4, <1>5, LoopsStay
<1>7. CallsRead'
  BY <1>1, <1>4, CallsStay
<1> QED BY <1>1, <1>6, <1>7, FunctionsStay

LEMMA LoopOverKept ==
  ASSUME EInv, Plain(Script), FunctionsRead, CallsRead, LoopsRead, LoopOver
  PROVE  FunctionsRead' /\ CallsRead' /\ LoopsRead'
<1>1. /\ pc = "loop" /\ pc' = "loops" /\ pending = {} /\ at' = DoneAfter(at) + 1
      /\ UNCHANGED <<tree, current, helpers, seen>>
  BY DEF LoopOver, scriptVars
<1>2. /\ at \in 1 .. Len(Script) /\ Is(Script, at, "for") /\ Script \in Seq(Lines)
      /\ Len(Script) \in Nat
  BY <1>1, DoneIsAfter DEF EInv, Types, Working
<1>3. PICK d : d = DoneAfter(at)
  OBVIOUS
<1>4. d \in at + 1 .. Len(Script) /\ \A i \in at + 1 .. d : ~Is(Script, i, "for")
  BY <1>2, <1>3, LoopsApart
<1>5. \A n : \A V : Kept(n, V) => Kept(n, V)'
  BY <1>1, KeptStays
<1>6. ASSUME NEW f \in 1 .. Len(Script), NEW h \in Found, LoopOf(f, h)', IsLoop(f)
      PROVE  LoopOf(f, h)
  <2>1. f < d + 1
    BY <1>1, <1>3, <1>6 DEF LoopOf
  <2>2. ~(f \in at + 1 .. d)
    BY <1>4, <1>6 DEF IsLoop, Is
  <2>3. f < at \/ f = at
    BY <1>2, <1>4, <2>1, <2>2
  <2> QED BY <1>1, <2>3 DEF LoopOf
<1>7. LoopsRead'
  BY <1>1, <1>5, <1>6, LoopsStay
<1>8. CallsRead'
  BY <1>1, <1>5, CallsStay
<1> QED BY <1>1, <1>7, <1>8, FunctionsStay

\* When a script was gone through, its queries are all there.
LEMMA CollectCatches ==
  ASSUME EInv, Plain(Script), FunctionsRead, CallsRead, LoopsRead, pc = "loops",
         \A f \in at .. Len(Script) : ~IsLoop(f),
         NEW a \in Mentions(Script),
         (a[2] = "origin" /\ a[3] \in AsNumbers) \/ (a[2] = "mnt-by" /\ a[3] # Empty)
  PROVE  [downloader |-> current, kind |-> a[2], value |-> a[3],
          mirrors |-> MirrorsMentioned(Script, a[2], a[3])] \in seen
<1>1. /\ Script \in Seq(Lines) /\ Len(Script) \in Nat /\ at \in Nat
      /\ \A i \in 1 .. Len(Script) : Script[i] \in Lines
  BY LenProperties, ElementOfSeq DEF EInv, Types, Working
<1>2. PICK c \in 1 .. Len(Script) :
        /\ Is(Script, c, "call")
        /\ a \in {<<Script[w].host, Script[w].asks, u>> :
                    w \in {x \in UNION {Body(Script, b) : b \in Begins(Script, Script[c].name)} :
                             Is(Script, x, "whois")},
                    u \in Passed(Script, c)}
  BY DEF Mentions
<1>3. PICK w \in UNION {Body(Script, b) : b \in Begins(Script, Script[c].name)},
           v \in Passed(Script, c) :
        Is(Script, w, "whois") /\ a = <<Script[w].host, Script[w].asks, v>>
  BY <1>2
<1> DEFINE n == Script[c].name
           k == a[2]
<1>4. a[3] = v /\ k \in Kinds /\ k \in KindsAsked(Script, n) /\ n \in HelperNames
  <2>1. a[3] = v /\ Script[w].asks = k
    BY <1>3
  <2>2. k \in Kinds
    BY DEF Kinds
  <2>3. n \in HelperNames
    BY <1>1, <1>2, LineFields DEF Is
  <2> QED BY <1>3, <2>1, <2>2, <2>3 DEF KindsAsked
<1>5. /\ n \in Found /\ helpers[n].kind = k
      /\ helpers[n].mirrors = MirrorsIn(Script, n, k)
  BY <1>4, FunctionIsFound
<1>6. MirrorsMentioned(Script, k, v) = MirrorsIn(Script, n, k)
  BY <1>1, <1>2, <1>3, <1>4, MirrorsOfCall
<1>7. v \in Values
  <2>1. CASE Script[c].arg \in Values
    BY <2>1 DEF Passed
  <2>2. CASE Script[c].arg \notin Values
    <3>1. PICK f \in Around(Script, c) : v \in Script[f].values
      BY <2>2 DEF Passed
    <3>2. f \in 1 .. Len(Script) /\ Is(Script, f, "for")
      BY <1>1, <3>1, AroundIsBeforeDone
    <3> QED BY <1>1, <3>1, <3>2, LineFields DEF Is
  <2> QED BY <2>1, <2>2
<1>8. Accepted(k, v)
  BY <1>4, <1>7, ScriptsAssumption DEF Accepted, ScriptsAssumption
<1>9. Entry(n, v) \in seen
  <2>1. CASE v = Script[c].arg
    <3>1. \A d \in 1 .. Len(Script) :
            Is(Script, d, "call") => Kept(Script[d].name, {Script[d].arg})
      BY DEF CallsRead
    <3>2. Is(Script, c, "call")
      BY <1>2
    <3>3. Kept(Script[c].name, {Script[c].arg})
      BY <3>1, <3>2, Zenon
    <3> QED BY <1>5, <1>8, <2>1, <3>3 DEF Kept
  <2>2. ASSUME NEW f \in 1 .. Len(Script), Is(Script, f, "for"), v \in Script[f].values,
               Matched(n, f)
        PROVE  Entry(n, v) \in seen
    <3>1. IsLoop(f)
      BY <1>1, <2>2, LoopsApart
    <3>2. f < at
      BY <1>1, <3>1
    <3>3. Kept(n, Script[f].values)
      BY <1>5, <2>2, <3>1, <3>2 DEF LoopsRead
    <3> QED BY <1>5, <1>8, <2>2, <3>3 DEF Kept
  <2> QED BY <1>1, <1>2, <1>3, <2>1, <2>2, PassedIsFound
<1> QED BY <1>4, <1>5, <1>6, <1>9 DEF Entry

-----------------------------------------------------------------------------
(* The queries of all scripts *)

LEMMA CaughtStays ==
  ASSUME NEW d, tree'[d] = tree[d], specs \subseteq specs', Caught(d)
  PROVE  Caught(d)'
BY DEF Caught

\* A step within a script.
LEMMA WithinScript ==
  ASSUME EInv, LInv, Working, UNCHANGED <<tree, current, unread, specs>>,
         pc' \in {"helpers", "calls", "loops", "loop"},
         Plain(Script) => FunctionsRead' /\ CallsRead' /\ LoopsRead'
  PROVE  LInv'
<1>1. Script' = Script /\ Working'
  BY DEF Script, Working
<1>2. \A d : Caught(d) => Caught(d)'
  BY CaughtStays
<1> QED BY <1>1, <1>2 DEF LInv

LEMMA ReadScriptCatches ==
  ASSUME EInv, LInv, NEW d \in Downloaders, ReadScript(d)
  PROVE  LInv'
<1>1. /\ pc = "read" /\ d \in unread /\ unread' = unread \ {d} /\ specs' = specs
      /\ inside' = inside
      /\ \A e \in Downloaders \ {d} : tree'[e] = tree[e]
  BY DEF ReadScript, EInv, Types
<1>2. \A e \in Downloaders \ unread :
        tree[e] # NoScript => Caught(e) /\ tree'[e] = tree[e] /\ Caught(e)'
  <2> TAKE e \in Downloaders \ unread
  <2>1. tree[e] # NoScript => Caught(e)
    BY <1>1 DEF LInv, Working
  <2>2. tree'[e] = tree[e]
    BY <1>1
  <2> QED BY <1>1, <2>1, <2>2, CaughtStays
<1>3. \A e \in Downloaders \ unread : tree'[e] = tree[e]
  BY <1>1
<1>4. CASE tree'[d] = NoScript
  <2>1. pc' = "read"
    BY <1>1, <1>4 DEF ReadScript
  <2> QED BY <1>1, <1>2, <1>3, <1>4, <2>1 DEF LInv, Working
<1>5. CASE tree'[d] # NoScript
  <2>1. /\ pc' = "helpers" /\ current' = d /\ at' = 1
        /\ helpers' = [n \in HelperNames |-> NoSpec]
    BY <1>5 DEF ReadScript
  <2>2. inside' = NoHelper /\ NoHelper \notin HelperNames
    BY <1>1, ScriptsAssumption DEF EInv, HelpersFit, ScriptsAssumption
  <2>3. \A n \in HelperNames : (Covers(IF n = inside THEN helper ELSE helpers[n], n, at))'
    <3>1. ASSUME NEW n \in HelperNames, NEW w \in AskLines(Script', n) PROVE ~(w < 1)
      BY DEF AskLines, Body, Begins
    <3> QED BY <2>1, <3>1 DEF Covers
  <2>4. \A n \in HelperNames : ~InFunction(Script', 1, n)
    BY DEF InFunction, Begins
  <2>5. FunctionsRead'
    BY <2>1, <2>3, <2>4 DEF FunctionsRead
  <2>6. CallsRead' /\ LoopsRead'
    BY <2>1 DEF CallsRead, LoopsRead
  <2> QED BY <1>1, <1>2, <1>3, <2>1, <2>5, <2>6 DEF LInv, Working
<1> QED BY <1>4, <1>5

LEMMA CollectKeepsAll ==
  ASSUME EInv, LInv, Collect
  PROVE  LInv'
<1>1. /\ pc = "loops" /\ pc' = "read" /\ specs' = specs \cup seen
      /\ \A f \in at .. Len(Script) : ~IsLoop(f)
      /\ UNCHANGED <<tree, unread, current>>
  BY DEF Collect
<1>2. ASSUME Plain(Script), NEW a \in Mentions(Script),
             (a[2] = "origin" /\ a[3] \in AsNumbers) \/ (a[2] = "mnt-by" /\ a[3] # Empty)
      PROVE  [downloader |-> current, kind |-> a[2], value |-> a[3],
              mirrors |-> MirrorsMentioned(Script, a[2], a[3])] \in specs'
  <2>1. FunctionsRead /\ CallsRead /\ LoopsRead
    BY <1>1, <1>2 DEF LInv, Working
  <2> QED BY <1>1, <1>2, <2>1, CollectCatches
<1>3. PICK d : d = current
  OBVIOUS
<1>4. Caught(d)'
  <2>1. Script = tree'[d]
    BY <1>1, <1>3 DEF Script
  <2> QED BY <1>2, <1>3, <2>1 DEF Caught
<1>5. \A e : Caught(e) => Caught(e)'
  BY <1>1, CaughtStays
<1>6. ASSUME NEW e \in Downloaders \ unread, tree[e] # NoScript PROVE Caught(e)'
  <2>1. CASE e = d
    BY <1>4, <2>1
  <2>2. CASE e # d
    BY <1>3, <1>5, <1>6, <2>2 DEF LInv
  <2> QED BY <2>1, <2>2
<1> QED BY <1>1, <1>6 DEF LInv, Working

LEMMA LInvKept == EInv /\ LInv /\ [ExtractNext]_extractVars => LInv'
<1> SUFFICES ASSUME EInv, LInv, [ExtractNext]_extractVars PROVE LInv'
  OBVIOUS
<1>1. CASE HelperLine
  <2>1. Working /\ pc = "helpers" /\ pc' = "helpers"
        /\ UNCHANGED <<tree, current, unread, specs>>
    BY <1>1 DEF HelperLine, Working
  <2>2. CallsRead' /\ LoopsRead'
    BY <2>1 DEF CallsRead, LoopsRead
  <2>3. Plain(Script) => FunctionsRead'
    BY <1>1, <2>1, HelperLineCovers DEF LInv
  <2> QED BY <2>1, <2>2, <2>3, WithinScript
<1>2. CASE HelpersFound \/ CallLine \/ CallsFound \/ FindLoop \/ LoopOver
           \/ \E h \in pending : LoopHelper(h)
  <2>1. Working /\ pc' \in {"calls", "loops", "loop"}
        /\ UNCHANGED <<tree, current, unread, specs>>
    BY <1>2 DEF HelpersFound, CallLine, CallsFound, FindLoop, LoopOver, LoopHelper, Working
  <2>2. ASSUME Plain(Script) PROVE FunctionsRead' /\ CallsRead' /\ LoopsRead'
    <3>1. FunctionsRead /\ CallsRead /\ LoopsRead
      BY <2>1, <2>2 DEF LInv
    <3> QED BY <1>2, <2>2, <3>1, HelpersFoundCovers, CallLineKept, CallsFoundKept,
               FindLoopKept, LoopOverKept, LoopHelperKept
  <2> QED BY <2>1, <2>2, WithinScript
<1>3. CASE \E d \in Downloaders : ReadScript(d)
  BY <1>3, ReadScriptCatches
<1>4. CASE Collect
  BY <1>4, CollectKeepsAll
<1>5. CASE ReadFails \/ Write \/ WriteFails \/ Load
  <2>1. /\ pc \in {"read", "written", "failed"} /\ pc' \in {"written", "failed"}
        /\ UNCHANGED <<tree, current, unread, specs>>
        /\ pc' = "written" => unread = {}
    BY <1>5 DEF ReadFails, Write, WriteFails, Load, LInv
  <2>2. \A d : Caught(d) => Caught(d)'
    BY <2>1, CaughtStays
  <2> QED BY <2>1, <2>2 DEF LInv, Working
<1>6. CASE UNCHANGED extractVars
  <2>1. UNCHANGED <<tree, pc, unread, current, at, inside, helper, helpers, pending,
                    seen, specs>>
    BY <1>6 DEF extractVars
  <2>2. \A n : \A V : Kept(n, V) => Kept(n, V)'
    BY <2>1, KeptStays
  <2>3. ASSUME FunctionsRead, CallsRead, LoopsRead
        PROVE  FunctionsRead' /\ CallsRead' /\ LoopsRead'
    <3>1. Script' = Script /\ Found' = Found
          /\ (\A f : IsLoop(f)' = IsLoop(f))
          /\ (\A h, f : Matched(h, f)' = Matched(h, f))
          /\ (\A spec, n, l : Covers(spec, n, l)' = Covers(spec, n, l))
          /\ (\A n, v : Entry(n, v)' = Entry(n, v))
      BY <2>1, LoopFactsKept DEF Entry
    <3>2. FunctionsRead'
      BY <2>1, <2>3, <3>1 DEF FunctionsRead, Covers
    <3>3. CallsRead'
      BY <2>1, <2>3, <3>1 DEF CallsRead, Kept
    <3>4. LoopsRead'
      BY <2>1, <2>3, <3>1 DEF LoopsRead, Kept
    <3> QED BY <3>2, <3>3, <3>4
  <2>4. \A d : Caught(d) => Caught(d)'
    BY <2>1, CaughtStays
  <2>5. Script' = Script /\ Working' = Working
    BY <2>1 DEF Script, Working
  <2> QED BY <2>1, <2>3, <2>4, <2>5 DEF LInv
<1> QED BY <1>1, <1>2, <1>3, <1>4, <1>5, <1>6 DEF ExtractNext

\* For scripts as the repository has them, a written file has every query that
\* can be asked of the index, with all its mirrors (extract.go 33-133).
THEOREM NothingIsLeftOutHolds == Spec => []NothingIsLeftOut
<1>1. Init => LInv
  BY DEF Init, ExtractInit, LInv, Working
<1>2. [Next]_manifestVars => [ExtractNext]_extractVars
  BY DEF Next, manifestVars
<1>3. EInv /\ LInv => NothingIsLeftOut
  <2> SUFFICES ASSUME EInv, LInv, pc = "written", NEW d \in Downloaders,
                      tree[d] # NoScript, Plain(tree[d]), NEW a \in Mentions(tree[d]),
                      (a[2] = "origin" /\ a[3] \in AsNumbers)
                        \/ (a[2] = "mnt-by" /\ a[3] # Empty)
               PROVE  [downloader |-> d, kind |-> a[2], value |-> a[3],
                       mirrors |-> MirrorsMentioned(tree[d], a[2], a[3])] \in file
    BY DEF NothingIsLeftOut, MirrorsMentioned
  <2>1. Caught(d)
    BY DEF LInv, Working
  <2>2. file = specs
    BY DEF EInv, FileIsRead
  <2> QED BY <2>1, <2>2 DEF Caught
<1> QED BY <1>1, <1>2, <1>3, EInvHolds, LInvKept, PTL DEF Spec
================================================================================

----------------------------- MODULE BossDraw_proof -----------------------------
(***************************************************************************)
(* Facts about MmxBossRushNextBoss for every set of bosses: what a draw     *)
(* returns and what it leaves in the queue.  HostServices_proof and         *)
(* BossRush_proof cite them.                                                *)
(***************************************************************************)
EXTENDS BossDraw, FiniteSetTheorems, SequenceTheorems,
        NaturalsInduction, WellFoundedInduction, TLAPS

\* A nonempty set of naturals has a least element.
LEMMA SmallestOfNaturals ==
    ASSUME NEW S \in SUBSET Nat, S # {}
    PROVE  \E k \in S : \A j \in S : k <= j
<1> DEFINE R == {ss \in Nat \X Nat : ss[1] < ss[2]}
<1>1. IsWellFoundedOn(R, Nat)
  BY NatLessThanWellFounded DEF OpToRel
<1> HIDE DEF R
<1>2. PICK k \in S : \A j \in S : ~(<<j, k>> \in R)
  BY <1>1, WFMin
<1>3. ASSUME NEW j \in S
      PROVE  k <= j
  <2>1. j \in Nat /\ k \in Nat
    OBVIOUS
  <2>2. ~(j < k)
    <3>1. <<j, k>> \in Nat \X Nat /\ <<j, k>>[1] = j /\ <<j, k>>[2] = k
      BY <2>1
    <3>2. QED
      BY <1>2, <3>1 DEF R
  <2>3. QED
    BY <2>1, <2>2
<1>4. QED
  BY <1>3

\* Removing one entry of a queue without repetitions (the memmove) leaves a
\* queue without repetitions, and not the removed boss.
LEMMA WithoutValid ==
    ASSUME NEW q \in Seq(Bosses), ValidQueue(q), NEW k \in DOMAIN q
    PROVE  /\ Without(q, k) \in Seq(Bosses)
           /\ ValidQueue(Without(q, k))
           /\ q[k] \notin Queued(Without(q, k))
           /\ Queued(Without(q, k)) \subseteq Queued(q)
<1>1. Len(q) \in Nat /\ DOMAIN q = 1..Len(q) /\ k \in 1..Len(q)
  BY LenProperties
<1> DEFINE n == Len(q) - 1
           at(j) == IF j < k THEN q[j] ELSE q[j + 1]
<1>2. n \in Nat
  BY <1>1
<1>3. \A j \in 1..n : at(j) \in Bosses
  BY <1>1, ElementOfSeq
<1>4. Without(q, k) = [j \in 1..n |-> at(j)]
  BY DEF Without
<1>5. Without(q, k) \in Seq(Bosses)
  BY <1>2, <1>3, <1>4
<1>6. DOMAIN Without(q, k) = 1..n
  BY <1>4
<1>7. \A i, j \in 1..n : at(i) = at(j) => i = j
  BY <1>1 DEF ValidQueue
<1>8. \A j \in 1..n : at(j) # q[k]
  BY <1>1 DEF ValidQueue
<1>9. \A j \in 1..n : at(j) \in Queued(q)
  BY <1>1 DEF Queued
<1>10. QED
  BY <1>3, <1>4, <1>5, <1>6, <1>7, <1>8, <1>9 DEF ValidQueue, Queued

\* Appending a shuffled round to a queue without repetitions repeats nobody,
\* and every boss is then queued.
LEMMA RoundValid ==
    ASSUME NEW q \in Seq(Bosses), ValidQueue(q), NEW r \in Rounds(q)
    PROVE  /\ q \o r \in Seq(Bosses)
           /\ ValidQueue(q \o r)
           /\ Queued(q \o r) = Bosses
<1> DEFINE fresh == Bosses \ Queued(q)
           c == Cardinality(fresh)
<1>1. IsFiniteSet(fresh) /\ c \in Nat
  BY BossesAssumption, FS_Subset, FS_CardinalityType
<1>2. r \in [1..c -> fresh] /\ \A i, j \in DOMAIN r : r[i] = r[j] => i = j
  BY DEF Rounds
<1>3. r \in Seq(Bosses) /\ Len(r) = c /\ DOMAIN r = 1..c
  <2>1. DOMAIN r = 1..c /\ r \in [1..c -> Bosses]
    BY <1>2
  <2>2. r \in Seq(Bosses)
    BY <1>1, <2>1, SeqDef
  <2>3. Len(r) \in Nat /\ DOMAIN r = 1..Len(r)
    BY <2>2, LenProperties
  <2>4. QED
    BY <1>1, <2>1, <2>2, <2>3
<1> DEFINE all == q \o r
<1>4. /\ all \in Seq(Bosses)
      /\ Len(all) = Len(q) + c
      /\ \A i \in 1..(Len(q) + c) :
            all[i] = IF i <= Len(q) THEN q[i] ELSE r[i - Len(q)]
  BY <1>3, ConcatProperties
<1>5. Len(q) \in Nat /\ DOMAIN q = 1..Len(q) /\ DOMAIN all = 1..(Len(q) + c)
  BY <1>4, LenProperties
<1>6. \A i \in 1..Len(q) : q[i] \in Queued(q)
  BY <1>5 DEF Queued
<1>7. ValidQueue(all)
  <2>1. \A i \in DOMAIN all : all[i] \in Bosses
    BY <1>4, <1>5, ElementOfSeq
  <2>2. ASSUME NEW i \in DOMAIN all, NEW j \in DOMAIN all, all[i] = all[j]
        PROVE  i = j
    <3>1. CASE i <= Len(q) /\ j <= Len(q)
      BY <1>4, <1>5, <2>2, <3>1 DEF ValidQueue
    <3>2. CASE i <= Len(q) /\ ~(j <= Len(q))
      <4>1. all[i] \in Queued(q)
        BY <1>4, <1>5, <1>6, <3>2
      <4>2. all[j] = r[j - Len(q)] /\ j - Len(q) \in 1..c
        BY <1>1, <1>4, <1>5, <3>2
      <4>3. all[j] \in fresh
        BY <1>2, <4>2
      <4>4. QED
        BY <2>2, <4>1, <4>3
    <3>3. CASE ~(i <= Len(q)) /\ j <= Len(q)
      <4>1. all[j] \in Queued(q)
        BY <1>4, <1>5, <1>6, <3>3
      <4>2. all[i] = r[i - Len(q)] /\ i - Len(q) \in 1..c
        BY <1>1, <1>4, <1>5, <3>3
      <4>3. all[i] \in fresh
        BY <1>2, <4>2
      <4>4. QED
        BY <2>2, <4>1, <4>3
    <3>4. CASE ~(i <= Len(q)) /\ ~(j <= Len(q))
      <4>1. all[i] = r[i - Len(q)] /\ i - Len(q) \in 1..c
        BY <1>1, <1>4, <1>5, <3>4
      <4>2. all[j] = r[j - Len(q)] /\ j - Len(q) \in 1..c
        BY <1>1, <1>4, <1>5, <3>4
      <4>3. i - Len(q) = j - Len(q)
        BY <1>2, <1>3, <2>2, <4>1, <4>2
      <4>4. QED
        BY <1>1, <1>5, <4>3
    <3>5. QED
      BY <3>1, <3>2, <3>3, <3>4
  <2>3. QED
    BY <2>1, <2>2 DEF ValidQueue
<1>8. Queued(all) = Bosses
  <2>1. Queued(all) \subseteq Bosses
    BY <1>7 DEF ValidQueue, Queued
  <2>2. ASSUME NEW b \in Bosses
        PROVE  b \in Queued(all)
    <3>1. CASE b \in Queued(q)
      <4>1. PICK i \in 1..Len(q) : q[i] = b
        BY <1>5, <3>1 DEF Queued
      <4>2. all[i] = b /\ i \in DOMAIN all
        BY <1>1, <1>4, <1>5, <4>1
      <4>3. QED
        BY <4>2 DEF Queued
    <3>2. CASE b \in fresh
      <4>1. r \in Injection(1..c, fresh)
        BY <1>2 DEF Injection, IsInjective
      <4>2. IsFiniteSet(1..c) /\ Cardinality(1..c) = c
        BY <1>1, FS_Interval
      <4>3. r \in Surjection(1..c, fresh)
        BY <1>1, <4>1, <4>2, FS_Injection
      <4>4. PICK i \in 1..c : r[i] = b
        BY <3>2, <4>3 DEF Surjection
      <4>5. i + Len(q) \in DOMAIN all /\ all[i + Len(q)] = b
        BY <1>1, <1>4, <1>5, <4>4
      <4>6. QED
        BY <4>5 DEF Queued
    <3>3. QED
      BY <3>1, <3>2
  <2>3. QED
    BY <2>1, <2>2
<1>9. QED
  BY <1>4, <1>7, <1>8

\* Take, from a queue without repetitions: the boss it returns is not present
\* and does not stay queued; it returns NoBoss only when every queued boss is
\* present.
LEMMA TakeProperties ==
    ASSUME NEW q \in Seq(Bosses), ValidQueue(q), NEW present,
           NEW n, n = Take(q, present)
    PROVE  /\ n.queue \in Seq(Bosses)
           /\ ValidQueue(n.queue)
           /\ n.id \in Bosses \cup {NoBoss}
           /\ n.id # NoBoss => n.id \notin present
           /\ n.id = NoBoss => Queued(q) \subseteq present
<1>1. CASE Ready(q, present) = {}
  <2>1. n.id = NoBoss /\ n.queue = q
    BY <1>1 DEF Take
  <2>2. Queued(q) \subseteq present
    BY <1>1 DEF Ready, Queued
  <2>3. QED
    BY <2>1, <2>2
<1>2. CASE Ready(q, present) # {}
  <2> DEFINE k == CHOOSE k \in Ready(q, present) :
                    \A j \in Ready(q, present) : k <= j
  <2>1. Ready(q, present) \subseteq Nat
    BY LenProperties DEF Ready
  <2>2. k \in Ready(q, present)
    <3>1. \E k0 \in Ready(q, present) : \A j \in Ready(q, present) : k0 <= j
      BY <1>2, <2>1, SmallestOfNaturals
    <3>2. QED
      BY <3>1
  <2>3. k \in DOMAIN q /\ q[k] \notin present
    BY <2>2 DEF Ready
  <2>4. n.id = q[k] /\ n.queue = Without(q, k)
    BY <1>2 DEF Take
  <2> HIDE DEF k
  <2>5. q[k] \in Bosses /\ q[k] # NoBoss
    BY <2>3, BossesAssumption DEF ValidQueue
  <2>6. QED
    BY <2>3, <2>4, <2>5, WithoutValid
<1>3. QED
  BY <1>1, <1>2

\* Every draw leaves a queue without repetitions, and never returns a boss
\* that is present (MmxBossRushNextBoss).
LEMMA NextBossProperties ==
    ASSUME NEW q \in Seq(Bosses), ValidQueue(q), NEW present,
           NEW n \in NextBoss(q, present)
    PROVE  /\ n.queue \in Seq(Bosses)
           /\ ValidQueue(n.queue)
           /\ n.id \in Bosses \cup {NoBoss}
           /\ n.id # NoBoss => n.id \notin present
           /\ n.id = NoBoss => Bosses \subseteq present
<1>1. CASE Ready(q, present) # {}
  <2>1. n = Take(q, present)
    BY <1>1 DEF NextBoss
  <2>2. n.id # NoBoss
    <3>1. ~(Queued(q) \subseteq present)
      BY <1>1 DEF Ready, Queued
    <3>2. QED
      BY <2>1, <3>1, TakeProperties
  <2>3. QED
    BY <2>1, <2>2, TakeProperties
<1>2. CASE Ready(q, present) = {}
  <2>1. PICK r \in Rounds(q) : n = Take(q \o r, present)
    BY <1>2 DEF NextBoss
  <2>2. /\ q \o r \in Seq(Bosses)
        /\ ValidQueue(q \o r)
        /\ Queued(q \o r) = Bosses
    BY RoundValid
  <2>3. QED
    BY <2>1, <2>2, TakeProperties
<1>3. QED
  BY <1>1, <1>2

\* With at most one boss on stage a draw always finds another one: a boss that
\* survives for ever cannot block the other seat (MmxBossRushNextBoss).
LEMMA DrawNeverFails ==
    ASSUME NEW q \in Seq(Bosses), ValidQueue(q), NEW b,
           NEW present \in SUBSET {b}, NEW n \in NextBoss(q, present)
    PROVE  n.id # NoBoss
<1>1. IsFiniteSet({b}) /\ Cardinality({b}) = 1
  BY FS_Singleton
<1>2. IsFiniteSet(present) /\ Cardinality(present) <= 1
  BY <1>1, FS_Subset
<1>3. SUFFICES ASSUME n.id = NoBoss PROVE FALSE
  OBVIOUS
<1>4. Bosses \in SUBSET present
  BY <1>3, NextBossProperties
<1>5. Cardinality(Bosses) <= Cardinality(present)
  BY <1>2, <1>4, FS_Subset
<1>6. Cardinality(Bosses) \in Nat /\ Cardinality(present) \in Nat
  BY <1>2, BossesAssumption, FS_CardinalityType
<1>7. QED
  BY <1>2, <1>5, <1>6, BossesAssumption
================================================================================

-------------------------- MODULE WeaponShots_proof --------------------------
(***************************************************************************)
(* Who holds whom and who is counted among the imported weapons' shots, for *)
(* every number of slots, enemies and effects.                              *)
(*                                                                         *)
(* A frame is a chain of changes of one record, the arena.  Most ticks do   *)
(* not touch what the properties speak of; such a change is Calm, and calm  *)
(* changes compose (CalmTwice) and keep the four Sides (CalmKeeps).  Each   *)
(* weapon's tick is shown to be calm, or safe where it takes hold, locks,   *)
(* spawns or carries.  The slots' ticks are a loop (LoopRuns), and the      *)
(* invariant ShotInv says which part of it a fall leaves standing.          *)
(***************************************************************************)
EXTENDS WeaponShots, FiniteSetTheorems, SequenceTheorems, NaturalsInduction, WellFoundedInduction, TLAPS

-----------------------------------------------------------------------------
(* Loops *)

(* A nonempty set of naturals has a least element.                         *)
LEMMA LeastNatural ==
    ASSUME NEW S \in SUBSET Nat, S # {}
    PROVE  Least(S) \in S /\ \A y \in S : Least(S) <= y
  <1> DEFINE below == {p \in Nat \X Nat : p[1] < p[2]}
  <1>1. IsWellFoundedOn(below, Nat)
    BY NatLessThanWellFounded DEF OpToRel
  <1> HIDE DEF below
  <1>2. PICK m \in S : \A j \in S : <<j, m>> \notin below
    BY <1>1, WFMin
  <1>3. ASSUME NEW j \in S PROVE m <= j
    <2>1. j \in Nat /\ m \in Nat
      OBVIOUS
    <2>2. <<j, m>> \in Nat \X Nat /\ <<j, m>>[1] = j /\ <<j, m>>[2] = m
      BY <2>1
    <2> QED
      BY <1>2, <2>1, <2>2 DEF below
  <1> QED
    BY <1>3 DEF Least

\* A loop's values exist: n steps from g.
LEMMA LoopExists ==
    ASSUME NEW T, NEW g \in T, NEW n \in Nat, NEW step \in [1 .. n -> [T -> T]]
    PROVE  \E f \in [0 .. n -> T] : f[0] = g /\ \A i \in 1 .. n : f[i] = step[i][f[i - 1]]
  <1> DEFINE Good(m) == \E f \in [0 .. m -> T] : f[0] = g /\ \A i \in 1 .. m : f[i] = step[i][f[i - 1]]
             Bad == {m \in 0 .. n : ~Good(m)}
             m == Least(Bad)
  <1>1. SUFFICES ASSUME ~Good(n) PROVE FALSE
    OBVIOUS
  <1>2. m \in 0 .. n /\ ~Good(m) /\ \A j \in 0 .. n : ~Good(j) => m <= j
    <2> HIDE DEF Good
    <2>1. Bad \in SUBSET Nat /\ n \in Bad
      BY <1>1
    <2>2. m \in Bad /\ \A j \in Bad : m <= j
      BY <2>1, LeastNatural
    <2> QED
      BY <2>2
  <1> HIDE DEF m
  <1>3. CASE m = 0
    <2> DEFINE f == [i \in 0 .. 0 |-> g]
    <2>1. f \in [0 .. 0 -> T] /\ f[0] = g /\ \A i \in 1 .. 0 : f[i] = step[i][f[i - 1]]
      OBVIOUS
    <2> HIDE DEF f
    <2>2. Good(0)
      BY <2>1
    <2> QED
      BY <1>2, <1>3, <2>2
  <1>4. CASE m # 0
    <2>1. m - 1 \in 0 .. n /\ m \in 1 .. n /\ ~(m <= m - 1)
      BY <1>2, <1>4
    <2>2. Good(m - 1)
      <3> HIDE DEF Good
      <3> QED
        BY <1>2, <2>1
    <2>3. PICK f \in [0 .. m - 1 -> T] : f[0] = g /\ \A i \in 1 .. m - 1 : f[i] = step[i][f[i - 1]]
      BY <2>2
    <2> DEFINE k == [i \in 0 .. m |-> IF i = m THEN step[m][f[m - 1]] ELSE f[i]]
    <2>4. step[m][f[m - 1]] \in T
      BY <2>1, <2>3
    <2>5. k \in [0 .. m -> T] /\ k[0] = g
      BY <1>2, <1>4, <2>3, <2>4
    <2>6. ASSUME NEW i \in 1 .. m PROVE k[i] = step[i][k[i - 1]]
      BY <1>2, <2>3
    <2> HIDE DEF k
    <2> QED
      BY <1>2, <2>5, <2>6
  <1> QED
    BY <1>3, <1>4

(* A loop: its steps lead from every set of values into the next one.      *)
Steps(n, T) == [1 .. n -> [T -> T]]
Leading(step, n, P) == \A i \in 1 .. n : \A h \in P[i - 1] : step[i][h] \in P[i]
Runs(f, step, n, g) == f = [i \in 0 .. n |-> IF i = 0 THEN g ELSE step[i][f[i - 1]]]
Within(f, n, P) == \A i \in 0 .. n : f[i] \in P[i]
TotalRun(f, step, n, T, g) ==
    f \in [0 .. n -> T] /\ f[0] = g /\ \A i \in 1 .. n : f[i] = step[i][f[i - 1]]

\* A loop of steps defined everywhere runs.
LEMMA TotalLoopRuns ==
    ASSUME NEW T, NEW g \in T, NEW n \in Nat, NEW step \in Steps(n, T)
    PROVE  \E f : TotalRun(f, step, n, T, g)
  <1>1. step \in [1 .. n -> [T -> T]]
    BY DEF Steps
  <1>2. \E f \in [0 .. n -> T] : f[0] = g /\ \A i \in 1 .. n : f[i] = step[i][f[i - 1]]
    BY <1>1, LoopExists
  <1> QED
    BY <1>2 DEF TotalRun

\* What every step hands on to the next, the last step hands on.
LEMMA LoopKeeps ==
    ASSUME NEW n \in Nat, NEW f, NEW P, f[0] \in P[0],
           \A i \in 1 .. n : f[i - 1] \in P[i - 1] => f[i] \in P[i]
    PROVE  f[n] \in P[n]
  <1> DEFINE Bad == {m \in 0 .. n : f[m] \notin P[m]}
  <1>1. SUFFICES ASSUME Bad # {} PROVE FALSE
    OBVIOUS
  <1>2. Bad \in SUBSET Nat
    OBVIOUS
  <1> DEFINE m == Least(Bad)
  <1>3. m \in Bad /\ \A j \in Bad : m <= j
    BY <1>1, <1>2, LeastNatural
  <1> HIDE DEF m
  <1>4. m \in 1 .. n /\ m - 1 \in 0 .. n /\ ~(m <= m - 1)
    BY <1>3
  <1> QED
    BY <1>3, <1>4

-----------------------------------------------------------------------------
(* Arenas, and changes that are calm *)

\* The arenas whose shots have a form of the set F.
AnyKind == Kinds \cup {"none", "health", "energy"}
ShotRecords(F) == [form : F, charged : BOOLEAN, age : {"new", "born", "old"}, clock : Int, target : Int,
                kind : AnyKind, quad : Int]
Arenas(F) ==
    [shots : [Slots -> ShotRecords(F)], actors : [Slots -> {"free", "owned", "native"}], count : Int,
     enemies : [Foes -> Kinds \cup {NoFoe}],
     effects : [Effects -> [target : Int, kind : AnyKind, clock : Int]],
     partner : SUBSET Foes, item : [kind : AnyKind, taken : BOOLEAN], token : Int]

\* A shot that was just fired is new; the guest's count is that of its slots; a record
\* stands for every slot of ours, and for no other.
Shaped(g) == \A s \in Slots :
    /\ g.shots[s].form = "fired" <=> g.shots[s].age = "new"
    /\ g.shots[s].form = "fired" => g.shots[s].quad = 0
Counted(g) == g.count = Cardinality({s \in Slots : g.actors[s] # "free"})
Owning(g) == \A s \in Slots : g.actors[s] = "owned" => g.shots[s].form # "none"
Recorded(g) == \A s \in Slots : g.shots[s].form # "none" => g.actors[s] = "owned"
Sound(g, F) == g \in Arenas(F) /\ Shaped(g) /\ Counted(g) /\ Owning(g) /\ Recorded(g)

Beside(h, g) == h.partner = g.partner /\ h.effects = g.effects /\ h.item = g.item

\* The forms the sides are about.
Special == Freezing \cup Carrying \cup CursorForms \cup {"eddy", "flame", "fired", "bee", "carry"}

\* A record that stays, or becomes one of no special interest; a hold or a
\* cursor's lock that goes on with its own target, a cursor that lets go.
Mild(p, q) ==
    \/ q = p
    \/ q.form \notin Special /\ p.form \notin {"carry", "busy"}
    \/ /\ q.target = p.target /\ q.quad = p.quad /\ q.kind = p.kind
       /\ \/ q.form = p.form
          \/ p.form \in Freezing /\ q.form \in Freezing
          \/ p.form \in {"lock", "locked"} /\ q.form \in Locking
    \/ q.quad = p.quad /\ p.form \in CursorForms \ {"busy"} /\ q.form \in {"wait", "back"}
    \/ p.form \in {"fired", "flame"} /\ q.form = "flame"

\* Arenas that a tick makes of g without touching what is special.
Calm(g, F) ==
    {h \in Arenas(F) :
        /\ Sound(h, F)
        /\ Beside(h, g)
        /\ \A i \in Slots : Mild(g.shots[i], h.shots[i])}

\* Doing nothing is calm.
LEMMA CalmItself == ASSUME NEW F, NEW g, Sound(g, F) PROVE g \in Calm(g, F)
  BY DEF Calm, Sound, Beside, Mild

\* Two calm changes are one.
LEMMA CalmTwice ==
    ASSUME NEW F, NEW g, NEW h \in Calm(g, F), NEW k \in Calm(h, F)
    PROVE  k \in Calm(g, F)
  <1>1. ASSUME NEW p, NEW q, NEW r, Mild(p, q), Mild(q, r) PROVE Mild(p, r)
    BY <1>1 DEF Mild, Special, Freezing, Carrying, CursorForms, Locking
  <1> QED
    BY <1>1 DEF Calm, Beside

\* The empty record is one of the records.
LEMMA NoShotRecord == ASSUME NEW F, "none" \in F PROVE NoShot \in ShotRecords(F)
  BY DEF NoShot, ShotRecords, AnyKind

\* What a slot of an arena holds.
LEMMA ShotFields ==
    ASSUME NEW F, NEW g \in Arenas(F), NEW s \in Slots
    PROVE  /\ g.shots[s] \in ShotRecords(F) /\ g.actors[s] \in {"free", "owned", "native"}
           /\ g.shots \in [Slots -> ShotRecords(F)]
  BY DEF Arenas

\* The projectile slots are finitely many numbers.
LEMMA SlotsFinite == IsFiniteSet(Slots) /\ Slots \in SUBSET Nat
  BY PoolAssumption, FS_Interval DEF Slots

\* The count when one slot changes.
LEMMA CountChanges ==
    ASSUME NEW F, NEW g \in Arenas(F), Counted(g), NEW s \in Slots, NEW a \in {"free", "owned", "native"},
           NEW h \in Arenas(F), h.actors = [g.actors EXCEPT ![s] = a],
           h.count = g.count + (IF a = "free" THEN 0 ELSE 1) - (IF g.actors[s] = "free" THEN 0 ELSE 1)
    PROVE  Counted(h)
  <1> DEFINE A == {i \in Slots : g.actors[i] # "free"}
             B == {i \in Slots : h.actors[i] # "free"}
  <1>1. IsFiniteSet(Slots) /\ A \in SUBSET Slots
    BY SlotsFinite
  <1>2. IsFiniteSet(A) /\ Cardinality(A) \in Nat
    BY <1>1, FS_Subset, FS_CardinalityType
  <1>3. g.actors \in [Slots -> {"free", "owned", "native"}] /\ g.count = Cardinality(A)
    BY DEF Arenas, Counted
  <1>4. h.count = Cardinality(B) <=> Counted(h)
    BY DEF Counted
  <1>5. B = IF a = "free" THEN A \ {s} ELSE A \cup {s}
    BY <1>3
  <1>6. s \in A <=> g.actors[s] # "free"
    OBVIOUS
  <1> HIDE DEF A, B
  <1>7. CASE a = "free"
    <2>1. Cardinality(A \ {s}) = IF s \in A THEN Cardinality(A) - 1 ELSE Cardinality(A)
      BY <1>2, FS_RemoveElement
    <2> QED
      BY <1>2, <1>3, <1>4, <1>5, <1>6, <1>7, <2>1
  <1>8. CASE a # "free"
    <2>1. Cardinality(A \cup {s}) = IF s \in A THEN Cardinality(A) ELSE Cardinality(A) + 1
      BY <1>2, FS_AddElement
    <2> QED
      BY <1>2, <1>3, <1>4, <1>5, <1>6, <1>8, <2>1
  <1> QED
    BY <1>7, <1>8

\* A shot that ends (ShotEnd of the weapons) frees its slot and its record together.
LEMMA RetiredCalm ==
    ASSUME NEW F, "none" \in F, NEW g, Sound(g, F), NEW s \in Slots,
           g.shots[s].form \notin {"carry", "busy"}
    PROVE  Retired(g, s) \in Calm(g, F) /\ Retired(g, s).shots = [g.shots EXCEPT ![s] = NoShot]
  <1> DEFINE r == Released(g, g.shots[s])
             h == Retired(g, s)
             owned == g.actors[s] = "owned"
  <1>1. g \in Arenas(F) /\ g.shots[s] \in ShotRecords(F)
    BY ShotFields DEF Sound
  <1>2. r \in Arenas(F) /\ r = [g EXCEPT !.enemies = r.enemies]
    BY <1>1 DEF Released, Destroyed, Host, Arenas, NoFoe, Carrying, Freezing
  <1>3. g.count \in Nat /\ (owned => g.count > 0)
    <2> DEFINE A == {i \in Slots : g.actors[i] # "free"}
    <2>1. IsFiniteSet(Slots) /\ A \in SUBSET Slots
      BY SlotsFinite
    <2>2. IsFiniteSet(A) /\ Cardinality(A) \in Nat
      BY <2>1, FS_Subset, FS_CardinalityType
    <2>3. g.count = Cardinality(A)
      BY DEF Sound, Counted
    <2>4. owned => A # {}
      OBVIOUS
    <2> HIDE DEF A
    <2> QED
      BY <2>2, <2>3, <2>4, FS_EmptySet
  <1>4. h = [r EXCEPT !.actors[s] = IF owned THEN "free" ELSE @,
                      !.count = IF owned /\ @ > 0 THEN @ - 1 ELSE @, !.shots[s] = NoShot]
    BY DEF Retired
  <1> HIDE DEF r, h
  <1>5. h \in Arenas(F)
    <2> DEFINE c == IF owned /\ r.count > 0 THEN r.count - 1 ELSE r.count
               a == IF owned THEN "free" ELSE r.actors[s]
    <2>1. c \in Int /\ a \in {"free", "owned", "native"} /\ NoShot \in ShotRecords(F)
      BY <1>2, NoShotRecord DEF Arenas
    <2>2. h = [r EXCEPT !.actors[s] = a, !.count = c, !.shots[s] = NoShot]
      BY <1>4
    <2> HIDE DEF a, c
    <2> QED
      BY <1>2, <2>1, <2>2 DEF Arenas
  <1>6. /\ h.shots = [g.shots EXCEPT ![s] = NoShot]
        /\ h.actors = [g.actors EXCEPT ![s] = IF owned THEN "free" ELSE @]
        /\ h.count = IF owned THEN g.count - 1 ELSE g.count
        /\ Beside(h, g)
    BY <1>1, <1>2, <1>3, <1>4 DEF Arenas, Beside
  <1>7. Counted(h)
    <2>1. CASE owned
      <3>1. h.actors = [g.actors EXCEPT ![s] = "free"] /\ h.count = g.count + 0 - 1
        BY <1>3, <1>6, <2>1
      <3>2. g.actors[s] # "free"
        BY <2>1
      <3> QED
        BY <1>1, <1>5, <3>1, <3>2, CountChanges DEF Sound
    <2>2. CASE ~owned
      <3>1. h.actors = g.actors /\ h.count = g.count
        BY <1>1, <1>6, <2>2 DEF Arenas
      <3> QED
        BY <3>1 DEF Sound, Counted
    <2> QED
      BY <2>1, <2>2
  <1>8. Shaped(h) /\ Owning(h) /\ Recorded(h)
    BY <1>1, <1>6 DEF Sound, Shaped, Owning, Recorded, Arenas, NoShot
  <1>9. \A i \in Slots : h.shots[i] = g.shots[i] \/ (i = s /\ h.shots[i].form = "none")
    BY <1>1, <1>6 DEF Arenas, NoShot
  <1> QED
    BY <1>5, <1>6, <1>7, <1>8, <1>9 DEF Calm, Mild, Sound, Special, h, Freezing, Carrying, CursorForms, Locking

\* Records a shot may bring along, and the arenas that differ from g in such
\* records only.
Kids(F) == {r \in ShotRecords(F) : r.form \notin {"none", "fired"} /\ r.age # "new"}
Grown(g, F, R) ==
    {h \in Arenas(F) :
        /\ Sound(h, F) /\ Beside(h, g)
        /\ \A i \in Slots : \/ h.shots[i] = g.shots[i]
                            \/ g.shots[i].form = "none" /\ h.shots[i] \in R}

\* A child takes a free slot, which it claims and counts, or does not come (SpawnChild).
LEMMA SpawnChildGrows ==
    ASSUME NEW F, NEW g, Sound(g, F), NEW r \in Kids(F)
    PROVE  /\ SpawnChild(g, r) \in Grown(g, F, {r})
           /\ \E s \in Slots : SpawnChild(g, r).shots \in {g.shots, [g.shots EXCEPT ![s] = r]}
  <1>1. g \in Arenas(F)
    BY DEF Sound
  <1>2. CASE FreeSlots(g) = {}
    <2>1. SpawnChild(g, r) = g
      BY <1>2 DEF SpawnChild
    <2>2. 1 \in Slots
      BY PoolAssumption DEF Slots
    <2> QED
      BY <1>1, <2>1, <2>2 DEF Grown, Beside
  <1>3. CASE FreeSlots(g) # {}
    <2> DEFINE s == Least(FreeSlots(g))
               h == SpawnChild(g, r)
    <2>1. s \in Slots /\ g.actors[s] = "free"
      <3>1. FreeSlots(g) \in SUBSET Slots
        BY DEF FreeSlots
      <3>2. s \in FreeSlots(g)
        BY <1>3, <3>1, SlotsFinite, LeastNatural
      <3> QED
        BY <3>2 DEF FreeSlots
    <2>2. h = [g EXCEPT !.shots[s] = r, !.actors[s] = "owned", !.count = @ + 1]
      BY <1>3 DEF SpawnChild
    <2> HIDE DEF s, h
    <2>3. r \in ShotRecords(F) /\ r.form \notin {"none", "fired"} /\ r.age # "new"
      BY DEF Kids
    <2>4. h \in Arenas(F)
      <3> DEFINE c == g.count + 1
      <3>1. c \in Int
        BY <1>1 DEF Arenas
      <3>2. h = [g EXCEPT !.shots[s] = r, !.actors[s] = "owned", !.count = c]
        BY <2>2
      <3> HIDE DEF c
      <3> QED
        BY <1>1, <2>1, <2>3, <3>1, <3>2 DEF Arenas
    <2>5. /\ h.shots = [g.shots EXCEPT ![s] = r] /\ h.actors = [g.actors EXCEPT ![s] = "owned"]
          /\ h.count = g.count + 1 /\ Beside(h, g)
      BY <1>1, <2>2 DEF Arenas, Beside
    <2>6. Counted(h)
      <3>1. h.count = g.count + 1 - 0
        BY <1>1, <2>5 DEF Arenas
      <3> QED
        BY <1>1, <2>1, <2>4, <2>5, <3>1, CountChanges DEF Sound
    <2>7. g.shots[s].form = "none"
      BY <1>1, <2>1 DEF Sound, Recorded, Arenas
    <2>8. Shaped(h) /\ Owning(h) /\ Recorded(h)
      BY <1>1, <2>1, <2>3, <2>5 DEF Sound, Shaped, Owning, Recorded, Arenas
    <2>9. \A i \in Slots : h.shots[i] = g.shots[i] \/ (i = s /\ h.shots[i] = r)
      BY <1>1, <2>1, <2>5 DEF Arenas
    <2> QED
      BY <2>1, <2>4, <2>5, <2>6, <2>7, <2>8, <2>9 DEF Grown, Sound, h
  <1> QED
    BY <1>2, <1>3

\* Several children take free slots only.
LEMMA SpawnedGrows ==
    ASSUME NEW F, NEW g, Sound(g, F), NEW R \in SUBSET Kids(F), NEW records,
           Len(records) \in Nat, \A i \in 1 .. Len(records) : records[i] \in R
    PROVE  Spawned(g, records) \in Grown(g, F, R)
  <1> DEFINE T == Grown(g, F, R)
             n == Len(records)
             step == [i \in 1 .. n |-> [h \in T |-> SpawnChild(h, records[i])]]
             IsLoop(f) == f = [i \in 0 .. n |-> IF i = 0 THEN g ELSE SpawnChild(f[i - 1], records[i])]
             after == CHOOSE f : IsLoop(f)
  <1>1. g \in T
    BY DEF Grown, Beside, Sound
  <1>2. ASSUME NEW i \in 1 .. n, NEW h \in T PROVE SpawnChild(h, records[i]) \in T
    <2>1. Sound(h, F) /\ records[i] \in R /\ records[i] \in Kids(F)
      BY DEF Grown
    <2>2. SpawnChild(h, records[i]) \in Grown(h, F, {records[i]})
      BY <2>1, SpawnChildGrows
    <2> QED
      BY <2>1, <2>2 DEF Grown, Beside
  <1> HIDE DEF T
  <1>3. step \in [1 .. n -> [T -> T]]
    BY <1>2
  <1>4. PICK f \in [0 .. n -> T] : f[0] = g /\ \A i \in 1 .. n : f[i] = step[i][f[i - 1]]
    <2> HIDE DEF step, n
    <2>1. n \in Nat
      BY DEF n
    <2>2. step \in Steps(n, T)
      BY <1>3 DEF Steps
    <2>3. PICK f : TotalRun(f, step, n, T, g)
      BY <1>1, <2>1, <2>2, TotalLoopRuns
    <2> QED
      BY <2>3 DEF TotalRun
  <1>5. IsLoop(f)
    <2>1. ASSUME NEW i \in 0 .. n PROVE f[i] = IF i = 0 THEN g ELSE SpawnChild(f[i - 1], records[i])
      <3>1. CASE i = 0
        BY <1>4, <3>1
      <3>2. CASE i # 0
        <4>1. i \in 1 .. n /\ i - 1 \in 0 .. n
          BY <3>2
        <4>2. step[i][f[i - 1]] = SpawnChild(f[i - 1], records[i])
          BY <1>4, <4>1
        <4> QED
          BY <1>4, <3>2, <4>1, <4>2
      <3> QED
        BY <3>1, <3>2
    <2>2. f = [i \in 0 .. n |-> f[i]]
      BY <1>4
    <2> QED
      BY <2>1, <2>2
  <1>6. Spawned(g, records) = after[n] /\ IsLoop(after)
    <2>1. IsLoop(after)
      BY <1>5
    <2>2. Spawned(g, records) = after[n]
      BY Zenon DEF Spawned, Through
    <2> QED
      BY <2>1, <2>2
  <1> HIDE DEF after
  <1>7. after[0] = g /\ \A i \in 1 .. n : after[i] = SpawnChild(after[i - 1], records[i])
    BY <1>6
  <1>8. after[n] \in T
    <2> DEFINE P == [i \in 0 .. n |-> T]
    <2>1. \A i \in 0 .. n : P[i] = T
      OBVIOUS
    <2> HIDE DEF P, n
    <2>2. n \in Nat
      BY DEF n
    <2>3. \A i \in 1 .. n : after[i - 1] \in P[i - 1] => after[i] \in P[i]
      BY <1>2, <1>7, <2>1, <2>2
    <2>4. after[0] \in P[0]
      BY <1>1, <1>7, <2>1, <2>2
    <2>5. after[n] \in P[n]
      BY <2>2, <2>3, <2>4, LoopKeeps
    <2> QED
      BY <2>1, <2>2, <2>5
  <1> QED
    BY <1>6, <1>8 DEF T

\* Forms of no special interest, and the records of such shots.
Plain(F) == F \ (Special \cup {"none"})
PlainKids(F) == {r \in Kids(F) : r.form \notin Special}

\* Children of no special form are calm.
LEMMA GrownCalm ==
    ASSUME NEW F, NEW g, NEW R \in SUBSET PlainKids(F), NEW h \in Grown(g, F, R)
    PROVE  h \in Calm(g, F)
  BY DEF Grown, Calm, Mild, PlainKids, Sound

\* Children of no special form are calm, and leave the shots in the air alone.
LEMMA SpawnedCalm ==
    ASSUME NEW F, NEW g, Sound(g, F), NEW records,
           Len(records) \in Nat, \A i \in 1 .. Len(records) : records[i] \in PlainKids(F)
    PROVE  /\ Spawned(g, records) \in Calm(g, F)
           /\ \A i \in Slots : g.shots[i].form # "none" => Spawned(g, records).shots[i] = g.shots[i]
  <1>1. PlainKids(F) \in SUBSET Kids(F)
    BY DEF PlainKids
  <1>2. Spawned(g, records) \in Grown(g, F, PlainKids(F))
    BY <1>1, SpawnedGrows
  <1> QED
    BY <1>2, GrownCalm DEF Grown

\* What a child has of its parent.
LEMMA ChildRecord ==
    ASSUME NEW F, NEW p \in ShotRecords(F), NEW f \in F
    PROVE  /\ Child(p, f) \in ShotRecords(F) /\ Child(p, f).form = f /\ Child(p, f).age = "born"
           /\ Child(p, f).quad = p.quad /\ Child(p, f).target = p.target
  <1> DEFINE a == [p EXCEPT !.form = f]
             b == [a EXCEPT !.age = "born"]
  <1>1. a \in ShotRecords(F) /\ a.form = f /\ a.quad = p.quad /\ a.target = p.target
    BY DEF ShotRecords
  <1>2. Child(p, f) = [b EXCEPT !.clock = 0]
    BY DEF Child
  <1> HIDE DEF a
  <1>3. b \in ShotRecords(F) /\ b.form = f /\ b.age = "born" /\ b.quad = p.quad /\ b.target = p.target
    BY <1>1 DEF ShotRecords
  <1> HIDE DEF b
  <1> QED
    BY <1>2, <1>3 DEF ShotRecords

\* Children of plain forms have plain records.
LEMMA ChildrenPlain ==
    ASSUME NEW F, NEW p \in ShotRecords(F), NEW forms \in Seq(Plain(F))
    PROVE  /\ Len(Children(p, forms)) \in Nat
           /\ \A i \in 1 .. Len(Children(p, forms)) : Children(p, forms)[i] \in PlainKids(F)
  <1>1. ASSUME NEW f \in Plain(F) PROVE Child(p, f) \in PlainKids(F)
    <2>1. f \in F /\ f \notin Special \cup {"none"}
      BY DEF Plain
    <2>2. Child(p, f) \in ShotRecords(F) /\ Child(p, f).form = f /\ Child(p, f).age = "born"
      BY <2>1, ChildRecord
    <2>3. "fired" \in Special
      BY DEF Special
    <2> QED
      BY <2>1, <2>2, <2>3 DEF PlainKids, Kids
  <1>2. Len(forms) \in Nat /\ DOMAIN forms = 1 .. Len(forms)
    BY LenProperties
  <1>3. Children(p, forms) \in [1 .. Len(forms) -> PlainKids(F)]
    BY <1>1, <1>2, ElementOfSeq DEF Children
  <1>4. Children(p, forms) \in Seq(PlainKids(F))
    BY <1>2, <1>3, SeqDef
  <1> QED
    BY <1>4, LenProperties, ElementOfSeq

\* A slot whose record changes while it is owned.
LEMMA RecordCalm ==
    ASSUME NEW F, NEW g, Sound(g, F), NEW s \in Slots,
           g.shots[s].form \notin {"none", "carry", "busy"},
           NEW r \in PlainKids(F), NEW h, h = [g EXCEPT !.shots[s] = r]
    PROVE  h \in Calm(g, F)
  <1>1. g \in Arenas(F) /\ r \in ShotRecords(F) /\ r.form \notin {"none", "fired"} /\ r.age # "new"
        /\ r.form \notin Special
    BY DEF Sound, PlainKids, Kids
  <1>2. h \in Arenas(F)
    BY <1>1 DEF Arenas
  <1>3. h.shots = [g.shots EXCEPT ![s] = r] /\ h.actors = g.actors /\ h.count = g.count /\ Beside(h, g)
    BY <1>1 DEF Arenas, Beside
  <1>4. Shaped(h) /\ Owning(h) /\ Recorded(h) /\ Counted(h)
    BY <1>1, <1>3 DEF Sound, Shaped, Owning, Recorded, Counted, Arenas
  <1> QED
    BY <1>1, <1>2, <1>3, <1>4 DEF Calm, Mild, Sound, Arenas

\* A fired shot that takes a plain form.
LEMMA StartCalm ==
    ASSUME NEW F, NEW g, Sound(g, F), NEW s \in Slots, Fresh(g, s), NEW form \in Plain(F)
    PROVE  /\ Start(g, s, form) \in Calm(g, F)
           /\ Start(g, s, form).shots[s].form = form /\ Start(g, s, form).shots[s].age = "born"
           /\ Start(g, s, form).shots[s].quad = g.shots[s].quad
           /\ \A i \in Slots \ {s} : Start(g, s, form).shots[i] = g.shots[i]
  <1> DEFINE r == [g.shots[s] EXCEPT !.form = form, !.age = "born"]
  <1>1. g \in Arenas(F) /\ g.shots[s] \in ShotRecords(F) /\ g.shots[s].form = "fired"
    BY ShotFields DEF Sound, Shaped, Fresh
  <1>2. r \in PlainKids(F)
    BY <1>1 DEF PlainKids, Kids, Plain, ShotRecords, Special
  <1>3. Start(g, s, form) = [g EXCEPT !.shots[s] = r]
    BY <1>1 DEF Start, Arenas, ShotRecords
  <1>4. r.form = form /\ r.age = "born" /\ r.quad = g.shots[s].quad
    BY <1>1 DEF ShotRecords
  <1> HIDE DEF r
  <1>5. Start(g, s, form).shots[s] = r /\ \A i \in Slots \ {s} : Start(g, s, form).shots[i] = g.shots[i]
    BY <1>1, <1>3 DEF Arenas
  <1>6. Start(g, s, form) \in Calm(g, F)
    BY <1>1, <1>2, <1>3, RecordCalm
  <1> QED
    BY <1>4, <1>5, <1>6

\* A shot that goes into a plain form, or whose end the form is.
LEMMA IntoCalm ==
    ASSUME NEW F, "none" \in F, NEW g, Sound(g, F), NEW s \in Slots, NEW form \in Plain(F),
           g.shots[s].form \notin {"none", "fired", "carry", "busy"}
    PROVE  Into(g, s, form) \in Calm(g, F)
  <1> DEFINE p == g.shots[s]
             r == IF form = "fade" THEN [NoShot EXCEPT !.form = form, !.charged = p.charged]
                  ELSE [p EXCEPT !.form = form]
  <1>1. g \in Arenas(F) /\ p \in ShotRecords(F) /\ p.age # "new"
    BY ShotFields DEF Sound, Shaped
  <1>2. r \in PlainKids(F)
    BY <1>1, NoShotRecord DEF PlainKids, Kids, Plain, ShotRecords, Special, NoShot
  <1>3. Into(g, s, form) = [g EXCEPT !.shots[s] = r]
    BY DEF Into
  <1> HIDE DEF r
  <1> QED
    BY <1>2, <1>3, RecordCalm

\* A launch with its children, or the end of a shot that is refused.
LEMMA LaunchCalm ==
    ASSUME NEW F, "none" \in F, NEW g, Sound(g, F), NEW s \in Slots, Fresh(g, s),
           NEW refused, NEW form \in Plain(F), NEW kids \in Seq(Plain(F))
    PROVE  Launch(g, s, refused, form, kids) \subseteq Calm(g, F)
  <1> DEFINE h == Start(g, s, form)
             k == Spawned(h, Children(h.shots[s], kids))
  <1>1. g.shots[s].form = "fired"
    BY DEF Sound, Shaped, Fresh
  <1>2. Retired(g, s) \in Calm(g, F)
    BY <1>1, RetiredCalm
  <1>3. h \in Calm(g, F)
    BY StartCalm
  <1>4. Sound(h, F) /\ h.shots[s] \in ShotRecords(F)
    BY <1>3, ShotFields DEF Calm
  <1> HIDE DEF h
  <1>5. k \in Calm(h, F)
    BY <1>4, ChildrenPlain, SpawnedCalm
  <1>6. k \in Calm(g, F)
    BY <1>3, <1>5, CalmTwice
  <1> HIDE DEF k
  <1>7. Launch(g, s, refused, form, kids) \subseteq {Retired(g, s), k}
    BY DEF Launch, h, k
  <1> QED
    BY <1>2, <1>6, <1>7

\* What a flight may lead to: a form or the end, and children.
Ways(F) == (Plain(F) \cup {"gone"}) \X Seq(Plain(F))

\* A flight along a course of plain forms: what the simple weapons do in a tick.
LEMMA FlyCalm ==
    ASSUME NEW F, "none" \in F, NEW g, Sound(g, F), NEW s \in Slots, NEW course,
           g.shots[s].form \notin {"none", "fired", "carry", "busy"},
           \/ g.shots[s].age = "born"
           \/ g.shots[s].form = "fade"
           \/ course[g.shots[s].form] \subseteq Ways(F)
    PROVE  Fly(g, s, course) \subseteq Calm(g, F)
  <1> DEFINE p == g.shots[s]
             h(o) == Spawned(g, Children(p, o[2]))
             Led(o) == IF o[1] = "gone" THEN Retired(h(o), s) ELSE Into(h(o), s, o[1])
  <1>1. g \in Calm(g, F) /\ Retired(g, s) \in Calm(g, F)
    BY CalmItself, RetiredCalm
  <1>2. CASE p.age = "born" \/ p.form = "fade"
    BY <1>1, <1>2 DEF Fly
  <1>3. CASE ~(p.age = "born" \/ p.form = "fade")
    <2>1. ASSUME NEW o \in course[p.form] PROVE Led(o) \in Calm(g, F)
      <3>1. o[1] \in Plain(F) \cup {"gone"} /\ o[2] \in Seq(Plain(F))
        BY <1>3 DEF Ways
      <3>2. p \in ShotRecords(F)
        BY ShotFields DEF Sound
      <3>3. h(o) \in Calm(g, F) /\ h(o).shots[s] = p
        BY <3>1, <3>2, ChildrenPlain, SpawnedCalm
      <3>4. Sound(h(o), F)
        BY <3>3 DEF Calm
      <3> HIDE DEF h
      <3>5. Retired(h(o), s) \in Calm(h(o), F)
        BY <3>3, <3>4, RetiredCalm
      <3>6. o[1] # "gone" => Into(h(o), s, o[1]) \in Calm(h(o), F)
        BY <3>1, <3>3, <3>4, IntoCalm
      <3> QED
        BY <3>3, <3>5, <3>6, CalmTwice
    <2>2. Fly(g, s, course) = {g, Retired(g, s)} \cup {Led(o) : o \in course[p.form]}
      BY <1>3 DEF Fly
    <2> HIDE DEF Led
    <2> QED
      BY <1>1, <2>1, <2>2
  <1> QED
    BY <1>2, <1>3

-----------------------------------------------------------------------------
(* The weapons that only fly *)

\* The sequences of children the weapons use.
LEMMA ShortSequences ==
    ASSUME NEW S, NEW x \in S
    PROVE  <<>> \in Seq(S) /\ <<x>> \in Seq(S) /\ <<x, x>> \in Seq(S) /\ <<x, x, x>> \in Seq(S)
           /\ Four(x) \in Seq(S)
  BY DEF Four

\* The ways of a flight are of plain forms.
LEMMA WaysOf ==
    ASSUME NEW F, NEW f \in Plain(F) \cup {"gone"}, NEW k \in Plain(F)
    PROVE  /\ To(f) \in Ways(F) /\ <<f, <<k>>>> \in Ways(F) /\ <<f, <<k, k, k>>>> \in Ways(F)
           /\ <<f, Four(k)>> \in Ways(F)
  BY ShortSequences DEF Ways, To

SonicForms == {"none", "fired", "fade", "gathering", "slicing", "slice", "gale"}

\* The sonic slicer's tick.
LEMMA SonicCalm ==
    ASSUME NEW g, Sound(g, SonicForms), NEW s \in Slots, g.shots[s].form # "none"
    PROVE  SonicTick(g, s) \subseteq Calm(g, SonicForms)
  <1> DEFINE F == SonicForms
             P == Plain(F)
             course == [slicing   |-> {<<"slice", <<"slice">>>>, To("fade")},
                        gathering |-> {<<"gale", Four("gale")>>, To("fade")},
                        slice     |-> {To("fade")},
                        gale      |-> {To("fade")}]
  <1>1. "none" \in F /\ {"fade", "gathering", "slicing", "slice", "gale"} \subseteq P
    BY DEF SonicForms, Plain, Special, Freezing, Carrying, CursorForms, Locking
  <1>2. g.shots[s].form \in F /\ {"carry", "busy"} \cap F = {}
    BY ShotFields DEF Sound, SonicForms, ShotRecords
  <1>3. CASE Fresh(g, s)
    <2>1. <<>> \in Seq(P)
      BY <1>1, ShortSequences
    <2> QED
      BY <1>1, <1>3, <2>1, LaunchCalm DEF SonicTick
  <1>4. CASE ~Fresh(g, s)
    <2>1. g.shots[s].form # "fired"
      BY <1>4 DEF Sound, Shaped, Fresh
    <2>2. /\ To("fade") \in Ways(F) /\ <<"slice", <<"slice">>>> \in Ways(F)
          /\ <<"gale", Four("gale")>> \in Ways(F)
      BY <1>1, WaysOf
    <2>5. g.shots[s].form = "fade" \/ course[g.shots[s].form] \subseteq Ways(F)
      <3> HIDE DEF P
      <3> QED
        BY <1>2, <2>1, <2>2 DEF SonicForms
    <2>3. SonicTick(g, s) = Fly(g, s, course)
      BY <1>4 DEF SonicTick
    <2> HIDE DEF course, P
    <2>4. Fly(g, s, course) \subseteq Calm(g, F)
      BY <1>1, <1>2, <2>1, <2>5, FlyCalm
    <2> QED
      BY <2>3, <2>4
  <1> QED
    BY <1>3, <1>4

AcidForms == {"none", "fired", "fade", "acid", "splash", "drop", "bouncer"}

\* The acid burst's tick.
LEMMA AcidCalm ==
    ASSUME NEW g, Sound(g, AcidForms), NEW s \in Slots, g.shots[s].form # "none"
    PROVE  AcidTick(g, s) \subseteq Calm(g, AcidForms)
  <1> DEFINE F == AcidForms
             P == Plain(F)
             course == [acid    |-> {To("splash"), To("fade")},
                       splash  |-> {<<"fade", Four("drop")>>},
                       drop    |-> {To("fade")},
                       bouncer |-> {<<"bouncer", <<"fade">>>>, <<"gone", <<"fade">>>>, To("fade")}]
  <1>1. "none" \in F /\ {"fade", "acid", "splash", "drop", "bouncer"} \subseteq P
    BY DEF AcidForms, Plain, Special, Freezing, Carrying, CursorForms, Locking
  <1>2. g.shots[s].form \in F /\ {"carry", "busy"} \cap F = {}
    BY ShotFields DEF Sound, AcidForms, ShotRecords
  <1>3. CASE Fresh(g, s)
    <2>1. <<>> \in Seq(P) /\ <<"bouncer">> \in Seq(P)
      BY <1>1, ShortSequences
    <2> QED
      BY <1>1, <1>3, <2>1, LaunchCalm DEF AcidTick
  <1>4. CASE ~Fresh(g, s)
    <2>1. g.shots[s].form # "fired"
      BY <1>4 DEF Sound, Shaped, Fresh
    <2>2. /\ To("splash") \in Ways(F)
          /\ To("fade") \in Ways(F)
          /\ <<"fade", Four("drop")>> \in Ways(F)
          /\ <<"bouncer", <<"fade">>>> \in Ways(F)
          /\ <<"gone", <<"fade">>>> \in Ways(F)
      BY <1>1, WaysOf
    <2>3. g.shots[s].form = "fade" \/ course[g.shots[s].form] \subseteq Ways(F)
      <3> HIDE DEF P
      <3> QED
        BY <1>2, <2>1, <2>2 DEF AcidForms
    <2>4. AcidTick(g, s) = Fly(g, s, course)
      BY <1>4 DEF AcidTick
    <2> HIDE DEF course, P
    <2>5. Fly(g, s, course) \subseteq Calm(g, F)
      BY <1>1, <1>2, <2>1, <2>3, FlyCalm
    <2> QED
      BY <2>4, <2>5
  <1> QED
    BY <1>3, <1>4

RayForms == {"none", "fired", "fade", "muzzle", "pod", "turret", "ray"}

\* The ray splasher's tick.
LEMMA RayCalm ==
    ASSUME NEW g, Sound(g, RayForms), NEW s \in Slots, g.shots[s].form # "none"
    PROVE  RayTick(g, s) \subseteq Calm(g, RayForms)
  <1> DEFINE F == RayForms
             P == Plain(F)
             course == [muzzle |-> {<<"muzzle", <<"ray">>>>},
                       pod    |-> {To("turret")},
                       turret |-> {<<"turret", <<"ray">>>>},
                       ray    |-> {To("fade")}]
  <1>1. "none" \in F /\ {"fade", "muzzle", "pod", "turret", "ray"} \subseteq P
    BY DEF RayForms, Plain, Special, Freezing, Carrying, CursorForms, Locking
  <1>2. g.shots[s].form \in F /\ {"carry", "busy"} \cap F = {}
    BY ShotFields DEF Sound, RayForms, ShotRecords
  <1>3. CASE Fresh(g, s)
    <2>1. <<>> \in Seq(P)
      BY <1>1, ShortSequences
    <2> QED
      BY <1>1, <1>3, <2>1, LaunchCalm DEF RayTick
  <1>4. CASE ~Fresh(g, s)
    <2>1. g.shots[s].form # "fired"
      BY <1>4 DEF Sound, Shaped, Fresh
    <2>2. /\ To("turret") \in Ways(F)
          /\ To("fade") \in Ways(F)
          /\ <<"muzzle", <<"ray">>>> \in Ways(F)
          /\ <<"turret", <<"ray">>>> \in Ways(F)
      BY <1>1, WaysOf
    <2>3. g.shots[s].form = "fade" \/ course[g.shots[s].form] \subseteq Ways(F)
      <3> HIDE DEF P
      <3> QED
        BY <1>2, <2>1, <2>2 DEF RayForms
    <2>4. RayTick(g, s) = Fly(g, s, course)
      BY <1>4 DEF RayTick
    <2> HIDE DEF course, P
    <2>5. Fly(g, s, course) \subseteq Calm(g, F)
      BY <1>1, <1>2, <2>1, <2>3, FlyCalm
    <2> QED
      BY <2>4, <2>5
  <1> QED
    BY <1>3, <1>4

FrostForms == {"none", "fired", "fade", "seed", "rocket", "core", "planted", "iceForm", "shield", "chunk", "platform"}

\* The frost shield's tick.
LEMMA FrostCalm ==
    ASSUME NEW g, Sound(g, FrostForms), NEW s \in Slots, g.shots[s].form # "none"
    PROVE  FrostTick(g, s) \subseteq Calm(g, FrostForms)
  <1> DEFINE F == FrostForms
             P == Plain(F)
             course == [seed    |-> {To("rocket"), To("fade"), <<"core", Four("fade")>>},
                       rocket  |-> {To("fade"), <<"core", Four("fade")>>},
                       core    |-> {To("planted"), To("fade"), Shatter},
                       planted |-> {To("fade"), Shatter},
                       iceForm |-> {To("shield"), To("platform"), To("fade")},
                       shield  |-> {<<"chunk", Four("fade")>>, To("fade"), Shatter},
                       chunk   |-> {To("fade"), Shatter},
                       platform |-> {To("fade"), Shatter}]
  <1>1. "none" \in F /\ {"fade", "seed", "rocket", "core", "planted", "iceForm", "shield", "chunk", "platform"} \subseteq P
    BY DEF FrostForms, Plain, Special, Freezing, Carrying, CursorForms, Locking
  <1>2. g.shots[s].form \in F /\ {"carry", "busy"} \cap F = {}
    BY ShotFields DEF Sound, FrostForms, ShotRecords
  <1>3. CASE Fresh(g, s)
    <2>1. <<>> \in Seq(P)
      BY <1>1, ShortSequences
    <2> QED
      BY <1>1, <1>3, <2>1, LaunchCalm DEF FrostTick
  <1>4. CASE ~Fresh(g, s)
    <2>1. g.shots[s].form # "fired"
      BY <1>4 DEF Sound, Shaped, Fresh
    <2>2. /\ To("rocket") \in Ways(F)
          /\ To("fade") \in Ways(F)
          /\ <<"core", Four("fade")>> \in Ways(F)
          /\ To("planted") \in Ways(F)
          /\ Shatter \in Ways(F)
          /\ To("shield") \in Ways(F)
          /\ To("platform") \in Ways(F)
          /\ <<"chunk", Four("fade")>> \in Ways(F)
      BY <1>1, WaysOf DEF Shatter
    <2>3. g.shots[s].form = "fade" \/ course[g.shots[s].form] \subseteq Ways(F)
      <3> HIDE DEF P
      <3> QED
        BY <1>2, <2>1, <2>2 DEF FrostForms
    <2>4. FrostTick(g, s) = Fly(g, s, course)
      BY <1>4 DEF FrostTick
    <2> HIDE DEF course, P
    <2>5. Fly(g, s, course) \subseteq Calm(g, F)
      BY <1>1, <1>2, <2>1, <2>3, FlyCalm
    <2> QED
      BY <2>4, <2>5
  <1> QED
    BY <1>3, <1>4

WheelForms == {"none", "fired", "fade", "wheel", "spin", "spoke"}

\* The spin wheel's tick.
LEMMA WheelCalm ==
    ASSUME NEW g, Sound(g, WheelForms), NEW s \in Slots, g.shots[s].form # "none"
    PROVE  WheelTick(g, s) \subseteq Calm(g, WheelForms)
  <1> DEFINE F == WheelForms
             P == Plain(F)
             seven == Four("spoke") \o <<"spoke", "spoke", "spoke">>
             course == [wheel |-> {To("fade")},
                       spin  |-> {<<"spoke", seven>>},
                       spoke |-> {}]
  <1>1. "none" \in F /\ {"fade", "wheel", "spin", "spoke"} \subseteq P
    BY DEF WheelForms, Plain, Special, Freezing, Carrying, CursorForms, Locking
  <1>2. g.shots[s].form \in F /\ {"carry", "busy"} \cap F = {}
    BY ShotFields DEF Sound, WheelForms, ShotRecords
  <1>3. CASE Fresh(g, s)
    <2>1. <<>> \in Seq(P)
      BY <1>1, ShortSequences
    <2> QED
      BY <1>1, <1>3, <2>1, LaunchCalm DEF WheelTick
  <1>4. CASE ~Fresh(g, s)
    <2>1. g.shots[s].form # "fired"
      BY <1>4 DEF Sound, Shaped, Fresh
    <2>2. /\ To("fade") \in Ways(F)
          /\ <<"spoke", seven>> \in Ways(F)
      <3>1. seven \in Seq(P)
        BY <1>1, ShortSequences, ConcatProperties
      <3> QED
        BY <1>1, <3>1, WaysOf DEF Ways
    <2>3. g.shots[s].form = "fade" \/ course[g.shots[s].form] \subseteq Ways(F)
      <3> HIDE DEF P, seven
      <3> QED
        BY <1>2, <2>1, <2>2 DEF WheelForms
    <2>4. WheelTick(g, s) = Fly(g, s, course)
      BY <1>4 DEF WheelTick
    <2> HIDE DEF course, P
    <2>5. Fly(g, s, course) \subseteq Calm(g, F)
      BY <1>1, <1>2, <2>1, <2>3, FlyCalm
    <2> QED
      BY <2>4, <2>5
  <1> QED
    BY <1>3, <1>4

BladeForms == {"none", "fired", "fade", "blade"}

\* The spinning blade's tick.
LEMMA BladeCalm ==
    ASSUME NEW g, Sound(g, BladeForms), NEW s \in Slots, g.shots[s].form # "none"
    PROVE  BladeTick(g, s) \subseteq Calm(g, BladeForms)
  <1> DEFINE F == BladeForms
             P == Plain(F)
             course == [blade |-> {To("fade")}]
  <1>1. "none" \in F /\ {"fade", "blade"} \subseteq P
    BY DEF BladeForms, Plain, Special, Freezing, Carrying, CursorForms, Locking
  <1>2. g.shots[s].form \in F /\ {"carry", "busy"} \cap F = {}
    BY ShotFields DEF Sound, BladeForms, ShotRecords
  <1>3. CASE Fresh(g, s)
    <2>1. <<>> \in Seq(P) /\ <<"blade">> \in Seq(P)
      BY <1>1, ShortSequences
    <2> QED
      BY <1>1, <1>3, <2>1, LaunchCalm DEF BladeTick
  <1>4. CASE ~Fresh(g, s)
    <2>1. g.shots[s].form # "fired"
      BY <1>4 DEF Sound, Shaped, Fresh
    <2>2. /\ To("fade") \in Ways(F)
      BY <1>1, WaysOf
    <2>3. g.shots[s].form = "fade" \/ course[g.shots[s].form] \subseteq Ways(F)
      <3> HIDE DEF P
      <3> QED
        BY <1>2, <2>1, <2>2 DEF BladeForms
    <2>4. BladeTick(g, s) = Fly(g, s, course)
      BY <1>4 DEF BladeTick
    <2> HIDE DEF course, P
    <2>5. Fly(g, s, course) \subseteq Calm(g, F)
      BY <1>1, <1>2, <2>1, <2>3, FlyCalm
    <2> QED
      BY <2>4, <2>5
  <1> QED
    BY <1>3, <1>4

FangForms == {"none", "fired", "fade", "drill", "bit"}

\* The tornado fang's tick.
LEMMA FangCalm ==
    ASSUME NEW g, Sound(g, FangForms), NEW s \in Slots, g.shots[s].form # "none"
    PROVE  FangTick(g, s) \subseteq Calm(g, FangForms)
  <1> DEFINE F == FangForms
             P == Plain(F)
             course == [drill |-> {To("fade")}, bit |-> {}]
  <1>1. "none" \in F /\ {"fade", "drill", "bit"} \subseteq P
    BY DEF FangForms, Plain, Special, Freezing, Carrying, CursorForms, Locking
  <1>2. g.shots[s].form \in F /\ {"carry", "busy"} \cap F = {}
    BY ShotFields DEF Sound, FangForms, ShotRecords
  <1>3. CASE Fresh(g, s)
    <2>1. <<>> \in Seq(P) /\ <<"drill">> \in Seq(P)
      BY <1>1, ShortSequences
    <2> QED
      BY <1>1, <1>3, <2>1, LaunchCalm DEF FangTick
  <1>4. CASE ~Fresh(g, s)
    <2>1. g.shots[s].form # "fired"
      BY <1>4 DEF Sound, Shaped, Fresh
    <2>2. /\ To("fade") \in Ways(F)
      BY <1>1, WaysOf
    <2>3. g.shots[s].form = "fade" \/ course[g.shots[s].form] \subseteq Ways(F)
      <3> HIDE DEF P
      <3> QED
        BY <1>2, <2>1, <2>2 DEF FangForms
    <2>4. FangTick(g, s) = Fly(g, s, course)
      BY <1>4 DEF FangTick
    <2> HIDE DEF course, P
    <2>5. Fly(g, s, course) \subseteq Calm(g, F)
      BY <1>1, <1>2, <2>1, <2>3, FlyCalm
    <2> QED
      BY <2>4, <2>5
  <1> QED
    BY <1>3, <1>4

\* A child alone.
LEMMA OneKidCalm ==
    ASSUME NEW F, NEW g, Sound(g, F), NEW r \in PlainKids(F)
    PROVE  /\ Spawned(g, <<r>>) \in Calm(g, F)
           /\ \A i \in Slots : g.shots[i].form # "none" => Spawned(g, <<r>>).shots[i] = g.shots[i]
  <1>1. Len(<<r>>) = 1 /\ \A i \in 1 .. 1 : <<r>>[i] = r
    OBVIOUS
  <1> QED
    BY <1>1, SpawnedCalm

\* A child of a plain form has a plain record.
LEMMA ChildPlain ==
    ASSUME NEW F, NEW p \in ShotRecords(F), NEW f \in Plain(F)
    PROVE  Child(p, f) \in PlainKids(F)
  <1>1. f \in F /\ f \notin Special \cup {"none"}
    BY DEF Plain
  <1>2. "fired" \in Special
    BY DEF Special
  <1> QED
    BY <1>1, <1>2, ChildRecord DEF PlainKids, Kids

BubbleForms == {"none", "fired", "fade", "bubble", "manager", "spent", "orbit"}

\* The manager of a charged bubble splash lets its bubbles go.
LEMMA EmitCalm ==
    ASSUME NEW g, Sound(g, BubbleForms), NEW s \in Slots, g.shots[s].form = "manager"
    PROVE  BubbleEmit(g, s) \subseteq Calm(g, BubbleForms)
  <1> DEFINE F == BubbleForms
  <1>1. "none" \in F /\ {"spent", "orbit"} \subseteq Plain(F)
    BY DEF BubbleForms, Plain, Special, Freezing, Carrying, CursorForms, Locking
  <1>2. g.shots[s] \in ShotRecords(F)
    BY ShotFields DEF Sound
  <1>3. Child(g.shots[s], "orbit") \in PlainKids(F)
    BY <1>1, <1>2, ChildPlain
  <1>4. /\ g \in Calm(g, F) /\ Into(g, s, "spent") \in Calm(g, F)
        /\ Spawned(g, <<Child(g.shots[s], "orbit")>>) \in Calm(g, F)
    BY <1>1, <1>3, CalmItself, IntoCalm, OneKidCalm
  <1> QED
    BY <1>4 DEF BubbleEmit

\* The bubble splash's tick.
LEMMA BubbleCalm ==
    ASSUME NEW g, Sound(g, BubbleForms), NEW s \in Slots, g.shots[s].form # "none"
    PROVE  BubbleTick(g, s) \subseteq Calm(g, BubbleForms)
  <1> DEFINE F == BubbleForms
             course == [orbit |-> {To("fade")}, bubble |-> {To("fade")}]
             p == g.shots[s]
             h == Start(g, s, "manager")
  <1>1. "none" \in F /\ {"fade", "bubble", "manager", "spent", "orbit"} \subseteq Plain(F)
    BY DEF BubbleForms, Plain, Special, Freezing, Carrying, CursorForms, Locking
  <1>2. p.form \in F /\ {"carry", "busy"} \cap F = {} /\ p \in ShotRecords(F)
    BY ShotFields DEF Sound, BubbleForms, ShotRecords
  <1>3. Retired(g, s) \in Calm(g, F) /\ g \in Calm(g, F)
    BY <1>1, <1>2, RetiredCalm, CalmItself
  <1>4. CASE Fresh(g, s)
    <2>1. <<>> \in Seq(Plain(F))
      BY <1>1, ShortSequences
    <2>2. \A refused : Launch(g, s, refused, "bubble", <<>>) \subseteq Calm(g, F)
      BY <1>1, <1>4, <2>1, LaunchCalm
    <2>3. h \in Calm(g, F) /\ h.shots[s].form = "manager" /\ Sound(h, F)
      <3>1. "manager" \in Plain(F)
        BY <1>1
      <3> QED
        BY <1>4, <3>1, StartCalm DEF Calm
    <2>4. BubbleEmit(h, s) \subseteq Calm(g, F)
      <3>1. BubbleEmit(h, s) \subseteq Calm(h, F)
        BY <2>3, EmitCalm
      <3> QED
        BY <2>3, <3>1, CalmTwice
    <2>5. \E refused : BubbleTick(g, s) \in
             {Launch(g, s, refused, "bubble", <<>>), {Retired(g, s)} \cup BubbleEmit(h, s)}
      <3> DEFINE refused == \/ Managers(g) # {}
                            \/ ~p.charged /\ Cardinality(Same(g, s)) >= 7
      <3>1. p.form = "fired" /\ p.age = "new"
        BY <1>4 DEF Sound, Shaped, Fresh
      <3>2. BubbleTick(g, s) \in
               {Launch(g, s, refused, "bubble", <<>>), {Retired(g, s)} \cup BubbleEmit(h, s)}
        BY <1>4, <3>1 DEF BubbleTick
      <3> HIDE DEF refused, h
      <3> QED
        BY <3>2
    <2> QED
      BY <1>3, <2>2, <2>4, <2>5
  <1>5. CASE ~Fresh(g, s)
    <2>1. p.form # "fired"
      BY <1>5 DEF Sound, Shaped, Fresh
    <2>2. To("fade") \in Ways(F)
      BY <1>1, WaysOf
    <2>3. p.form \in {"orbit", "bubble"} => course[p.form] \subseteq Ways(F)
      BY <2>2
    <2>4. p.form \in {"orbit", "bubble", "fade"} => Fly(g, s, course) \subseteq Calm(g, F)
      <3> HIDE DEF course
      <3> QED
        BY <1>1, <1>2, <2>1, <2>3, FlyCalm
    <2>5. p.form = "manager" => BubbleEmit(g, s) \subseteq Calm(g, F)
      BY EmitCalm
    <2>6. p.form = "orbit" => Into(g, s, "fade") \in Calm(g, F)
      BY <1>1, IntoCalm
    <2>7. BubbleTick(g, s) \subseteq
             {g, Retired(g, s)} \cup (IF p.form = "manager" THEN BubbleEmit(g, s) ELSE {})
             \cup (IF p.form = "orbit" THEN {Into(g, s, "fade")} ELSE {})
             \cup (IF p.form \in {"orbit", "bubble", "fade"} THEN Fly(g, s, course) ELSE {})
      <3> HIDE DEF course
      <3>1. p.form \in {"fade", "bubble", "manager", "spent", "orbit"}
        BY <1>2, <2>1 DEF BubbleForms
      <3> QED
        BY <1>5, <3>1 DEF BubbleTick, course
    <2> HIDE DEF course
    <2> QED
      BY <1>3, <2>4, <2>5, <2>6, <2>7
  <1> QED
    BY <1>4, <1>5

\* Several shots that change at once.
LEMMA RecordsCalm ==
    ASSUME NEW F, NEW g, Sound(g, F), NEW sh \in [Slots -> ShotRecords(F)],
           \A i \in Slots : \/ sh[i] = g.shots[i]
                            \/ sh[i] \in PlainKids(F) /\ g.shots[i].form \notin {"none", "carry", "busy"},
           NEW h, h = [g EXCEPT !.shots = sh]
    PROVE  h \in Calm(g, F)
  <1>1. g \in Arenas(F)
    BY DEF Sound
  <1>2. h \in Arenas(F) /\ h.shots = sh /\ h.actors = g.actors /\ h.count = g.count /\ Beside(h, g)
    BY <1>1 DEF Arenas, Beside
  <1>3. \A i \in Slots : \/ sh[i] = g.shots[i]
                         \/ /\ sh[i].form \notin {"none", "fired"} \cup Special /\ sh[i].age # "new"
                            /\ g.shots[i].form \notin {"none", "carry", "busy"}
    BY DEF PlainKids, Kids
  <1>4. Shaped(h) /\ Owning(h) /\ Recorded(h) /\ Counted(h)
    BY <1>2, <1>3 DEF Sound, Shaped, Owning, Recorded, Counted
  <1> QED
    BY <1>2, <1>3, <1>4 DEF Calm, Mild, Sound

MagnetForms == {"none", "fired", "fly", "arm", "plant", "magnet", "blast"}

\* The magnet mine's tick.
LEMMA MagnetCalm ==
    ASSUME NEW g, Sound(g, MagnetForms), NEW s \in Slots, g.shots[s].form # "none"
    PROVE  MagnetTick(g, s) \subseteq Calm(g, MagnetForms)
  <1> DEFINE F == MagnetForms
             course == [fly    |-> {To("arm"), To("blast")},
                        arm    |-> {To("plant"), To("blast")},
                        plant  |-> {To("blast")},
                        magnet |-> {}]
             p == g.shots[s]
             mines == {i \in Others(g, s) : Is(g, i, {"fly", "arm", "plant"})}
             blasted(near) == [i \in Slots |->
                 IF i \in near THEN [g.shots[i] EXCEPT !.form = "blast"] ELSE g.shots[i]]
             Detonated(near) == [g EXCEPT !.shots = blasted(near)]
  <1>1. "none" \in F /\ {"fly", "arm", "plant", "magnet", "blast"} \subseteq Plain(F)
    BY DEF MagnetForms, Plain, Special, Freezing, Carrying, CursorForms, Locking
  <1>2. p.form \in F /\ {"carry", "busy"} \cap F = {} /\ p \in ShotRecords(F)
    BY ShotFields DEF Sound, MagnetForms, ShotRecords
  <1>3. Retired(g, s) \in Calm(g, F) /\ g \in Calm(g, F)
    BY <1>1, <1>2, RetiredCalm, CalmItself
  <1>4. CASE Fresh(g, s)
    <2>1. <<>> \in Seq(Plain(F))
      BY <1>1, ShortSequences
    <2>2. \A refused : \A f \in {"fly", "magnet"} : Launch(g, s, refused, f, <<>>) \subseteq Calm(g, F)
      BY <1>1, <1>4, <2>1, LaunchCalm
    <2>3. \E refused : \E f \in {"fly", "magnet"} : MagnetTick(g, s) = Launch(g, s, refused, f, <<>>)
      <3> DEFINE refused == \E i \in Others(g, s) : g.shots[i].charged \/ Is(g, i, {"fly", "arm"})
                 f == IF p.charged THEN "magnet" ELSE "fly"
      <3>1. MagnetTick(g, s) = Launch(g, s, refused, f, <<>>)
        <4>1. p.form = "fired"
          BY <1>4 DEF Sound, Shaped, Fresh
        <4> QED
          BY <1>4, <4>1 DEF MagnetTick
      <3>2. f \in {"fly", "magnet"}
        OBVIOUS
      <3> HIDE DEF refused, f
      <3> QED
        BY <3>1, <3>2
    <2> QED
      BY <2>2, <2>3
  <1>5. CASE ~Fresh(g, s) /\ p.form = "blast"
    <2>1. ASSUME NEW near \in SUBSET mines PROVE Retired(Detonated(near), s) \in Calm(g, F)
      <3>1. \A i \in near : i \in Slots \ {s} /\ g.shots[i].form \in {"fly", "arm", "plant"}
        BY DEF Others, Is
      <3>2. \A i \in near : [g.shots[i] EXCEPT !.form = "blast"] \in PlainKids(F)
        <4> SUFFICES ASSUME NEW i \in near PROVE [g.shots[i] EXCEPT !.form = "blast"] \in PlainKids(F)
          OBVIOUS
        <4>1. g.shots[i] \in ShotRecords(F) /\ g.shots[i].age # "new" /\ "blast" \in F /\ "blast" \notin Special
          BY <1>1, <3>1, ShotFields DEF Sound, Shaped, Plain
        <4> QED
          BY <4>1 DEF PlainKids, Kids, ShotRecords
      <3>3. g.shots \in [Slots -> ShotRecords(F)] /\ PlainKids(F) \subseteq ShotRecords(F)
        BY ShotFields, <1>2 DEF Sound, PlainKids, Kids, Arenas
      <3>4. blasted(near) \in [Slots -> ShotRecords(F)]
        BY <3>2, <3>3
      <3>5. \A i \in Slots : \/ blasted(near)[i] = g.shots[i]
                             \/ /\ blasted(near)[i] \in PlainKids(F)
                                /\ g.shots[i].form \notin {"none", "carry", "busy"}
        BY <3>1, <3>2
      <3>6. blasted(near)[s] = p
        BY <3>1
      <3>7. Detonated(near).shots = blasted(near)
        BY DEF Sound, Arenas
      <3> HIDE DEF blasted
      <3>8. Detonated(near) \in Calm(g, F)
        BY <3>4, <3>5, RecordsCalm
      <3>9. Retired(Detonated(near), s) \in Calm(Detonated(near), F)
        <4>1. Sound(Detonated(near), F) /\ Detonated(near).shots[s] = p
          BY <3>6, <3>7, <3>8 DEF Calm
        <4> HIDE DEF Detonated
        <4> QED
          BY <1>1, <1>2, <4>1, RetiredCalm
      <3> QED
        BY <3>8, <3>9, CalmTwice
    <2>2. MagnetTick(g, s) = {g} \cup {Retired(Detonated(near), s) : near \in SUBSET mines}
      BY <1>5 DEF MagnetTick
    <2> HIDE DEF Detonated, mines
    <2> QED
      BY <1>3, <2>1, <2>2
  <1>6. CASE ~Fresh(g, s) /\ p.form # "blast"
    <2>1. p.form # "fired"
      BY <1>6 DEF Sound, Shaped, Fresh
    <2>2. To("arm") \in Ways(F) /\ To("blast") \in Ways(F) /\ To("plant") \in Ways(F)
      BY <1>1, WaysOf
    <2>3. course[p.form] \subseteq Ways(F)
      BY <1>2, <1>6, <2>1, <2>2 DEF MagnetForms
    <2>4. MagnetTick(g, s) = Fly(g, s, course)
      BY <1>6 DEF MagnetTick
    <2> HIDE DEF course
    <2> QED
      BY <1>1, <1>2, <2>1, <2>3, <2>4, FlyCalm
  <1> QED
    BY <1>4, <1>5, <1>6

SilkForms == {"none", "fired", "ball", "piece", "thrown", "scattered", "gathered"}

\* The pieces of a silk ball.
LEMMA PiecesCalm ==
    ASSUME NEW F, "none" \in F, NEW g, Sound(g, F), NEW form \in Plain(F)
    PROVE  SilkCreatePieces(g, form) \in Calm(g, F)
  <1> DEFINE r == [NoShot EXCEPT !.form = form, !.charged = TRUE, !.age = "born"]
             records == [i \in Slots |-> r]
  <1>1. r \in PlainKids(F)
    BY NoShotRecord DEF PlainKids, Kids, Plain, ShotRecords, Special, NoShot
  <1> HIDE DEF r
  <1>2. records \in Seq(PlainKids(F))
    BY <1>1, SeqDef, PoolAssumption DEF Slots
  <1>3. SilkCreatePieces(g, form) = Spawned(g, records)
    BY DEF SilkCreatePieces, r
  <1> HIDE DEF records
  <1> QED
    BY <1>2, <1>3, LenProperties, ElementOfSeq, SpawnedCalm

\* The silk shot's tick.
LEMMA SilkCalm ==
    ASSUME NEW g, Sound(g, SilkForms), NEW s \in Slots, g.shots[s].form # "none", NEW held
    PROVE  SilkTick(g, s, held) \subseteq Calm(g, SilkForms)
  <1> DEFINE F == SilkForms
             course == [thrown |-> {To("scattered")}, scattered |-> {}]
             p == g.shots[s]
  <1>1. "none" \in F /\ {"ball", "piece", "thrown", "scattered", "gathered"} \subseteq Plain(F)
    BY DEF SilkForms, Plain, Special, Freezing, Carrying, CursorForms, Locking
  <1>2. p.form \in F /\ {"carry", "busy"} \cap F = {} /\ p \in ShotRecords(F)
    BY ShotFields DEF Sound, SilkForms, ShotRecords
  <1>3. Retired(g, s) \in Calm(g, F) /\ g \in Calm(g, F) /\ Sound(Retired(g, s), F)
    BY <1>1, <1>2, RetiredCalm, CalmItself DEF Calm
  <1>4. CASE Fresh(g, s)
    <2>1. Launch(g, s, FALSE, "ball", <<>>) \subseteq Calm(g, F)
      <3>1. <<>> \in Seq(Plain(F)) /\ "ball" \in Plain(F)
        BY <1>1, ShortSequences
      <3> QED
        BY <1>1, <1>4, <3>1, LaunchCalm
    <2>2. SilkCreatePieces(Retired(g, s), "thrown") \in Calm(g, F)
      BY <1>1, <1>3, PiecesCalm, CalmTwice
    <2>3. p.form = "fired" /\ p.age = "new"
      BY <1>4 DEF Sound, Shaped, Fresh
    <2>4. SilkTick(g, s, held) \in {{SilkCreatePieces(Retired(g, s), "thrown")},
                                    Launch(g, s, FALSE, "ball", <<>>)}
      BY <1>4, <2>3 DEF SilkTick
    <2> QED
      BY <2>1, <2>2, <2>4
  <1>5. CASE ~Fresh(g, s)
    <2>1. p.form # "fired"
      BY <1>5 DEF Sound, Shaped, Fresh
    <2>2. To("scattered") \in Ways(F)
      BY <1>1, WaysOf
    <2>3. p.form \in {"thrown", "scattered"} => course[p.form] \subseteq Ways(F)
      BY <2>2
    <2>4. p.form \in {"thrown", "scattered"} => Fly(g, s, course) \subseteq Calm(g, F)
      <3> HIDE DEF course
      <3> QED
        BY <1>1, <1>2, <2>1, <2>3, FlyCalm
    <2>5. p.form = "gathered" => Into(g, s, "thrown") \in Calm(g, F)
      BY <1>1, IntoCalm
    <2>6. SilkSplit(g, s) \in Calm(g, F)
      <3>1. Four("piece") \in Seq(Plain(F))
        BY <1>1, ShortSequences
      <3>2. SilkSplit(g, s) \in Calm(Retired(g, s), F)
        BY <1>2, <1>3, <3>1, ChildrenPlain, SpawnedCalm DEF SilkSplit
      <3> QED
        BY <1>3, <3>2, CalmTwice
    <2>7. SilkTick(g, s, held) \subseteq
             {g, Retired(g, s), SilkSplit(g, s)}
             \cup (IF p.form = "gathered" THEN {Into(g, s, "thrown")} ELSE {})
             \cup (IF p.form \in {"thrown", "scattered"} THEN Fly(g, s, course) ELSE {})
      <3> HIDE DEF course
      <3>1. p.form \in {"ball", "piece", "thrown", "scattered", "gathered"}
        BY <1>2, <2>1 DEF SilkForms
      <3> QED
        BY <1>5, <3>1 DEF SilkTick, course
    <2> HIDE DEF course
    <2> QED
      BY <1>3, <2>4, <2>5, <2>6, <2>7
  <1> QED
    BY <1>4, <1>5

-----------------------------------------------------------------------------
(* The triad thunder: its charged shot clears the other slots *)

\* A loop runs, and stays within the sets its steps lead through.
LEMMA LoopRuns ==
    ASSUME NEW n \in Nat, NEW P, NEW step, NEW g \in P[0], Leading(step, n, P)
    PROVE  \E f : Runs(f, step, n, g) /\ Within(f, n, P)
  <1> DEFINE T == UNION {P[i] : i \in 0 .. n}
             total == [i \in 1 .. n |-> [h \in T |-> IF step[i][h] \in T THEN step[i][h] ELSE g]]
  <1>1. g \in T /\ \A i \in 0 .. n : P[i] \subseteq T
    OBVIOUS
  <1> HIDE DEF T
  <1>2. total \in Steps(n, T)
    BY <1>1 DEF Steps
  <1>3. PICK f : TotalRun(f, total, n, T, g)
    <2> HIDE DEF total
    <2> QED
      BY <1>1, <1>2, TotalLoopRuns
  <1>4. ASSUME NEW i \in 1 .. n, f[i - 1] \in P[i - 1] PROVE f[i] = step[i][f[i - 1]] /\ f[i] \in P[i]
    <2>1. step[i][f[i - 1]] \in P[i] /\ i \in 0 .. n /\ i - 1 \in 0 .. n
      BY <1>4 DEF Leading
    <2> QED
      BY <1>1, <1>3, <2>1 DEF TotalRun
  <1>5. ASSUME NEW m \in 0 .. n PROVE f[m] \in P[m]
    <2>1. \A i \in 1 .. m : f[i - 1] \in P[i - 1] => f[i] \in P[i]
      BY <1>4
    <2>2. f[0] \in P[0] /\ m \in Nat
      BY <1>3 DEF TotalRun
    <2> QED
      BY <2>1, <2>2, LoopKeeps
  <1>6. f = [i \in 0 .. n |-> f[i]]
    BY <1>3 DEF TotalRun
  <1>7. \A i \in 0 .. n : f[i] = IF i = 0 THEN g ELSE step[i][f[i - 1]]
    BY <1>3, <1>4, <1>5 DEF TotalRun
  <1>8. f = [i \in 0 .. n |-> IF i = 0 THEN g ELSE step[i][f[i - 1]]]
    BY <1>6, <1>7
  <1> QED
    BY <1>5, <1>8 DEF Runs, Within

TriadForms == {"none", "fired", "orb", "ready", "linked", "wave", "storm", "quake", "quaked",
               "running", "link", "bolt", "falling"}

\* A charged triangle first clears the other slots.
LEMMA RestRetired ==
    ASSUME NEW F, "none" \in F, {"carry", "busy"} \cap F = {}, NEW g, Sound(g, F), NEW s \in Slots
    PROVE  LET h == Through(LAMBDA f, i : IF i = s THEN f ELSE Retired(f, i), g, SlotCount)
           IN  h \in Calm(g, F) /\ h.shots[s] = g.shots[s]
  <1> DEFINE T == {h \in Calm(g, F) : h.shots[s] = g.shots[s]}
             n == SlotCount
             P == [i \in 0 .. n |-> T]
             One(h, i) == IF i = s THEN h ELSE Retired(h, i)
             step == [i \in 1 .. n |-> [h \in T |-> One(h, i)]]
             after == CHOOSE f : f = [i \in 0 .. n |-> IF i = 0 THEN g ELSE One(f[i - 1], i)]
             whole == Through(LAMBDA f, i : IF i = s THEN f ELSE Retired(f, i), g, SlotCount)
  <1>1. g \in T /\ n \in Nat
    BY CalmItself, PoolAssumption
  <1>2. ASSUME NEW i \in 1 .. n, NEW h \in T PROVE One(h, i) \in T
    <2>1. CASE i # s
      <3>1. Sound(h, F) /\ i \in Slots /\ h.shots[i].form \in F
        BY ShotFields DEF Calm, Sound, ShotRecords, Slots
      <3>2. Retired(h, i) \in Calm(h, F) /\ Retired(h, i).shots[s] = h.shots[s]
        <4>1. h.shots \in [Slots -> ShotRecords(F)]
          BY <3>1, ShotFields DEF Sound
        <4>2. h.shots[i].form \notin {"carry", "busy"}
          BY <3>1
        <4>3. Retired(h, i) \in Calm(h, F) /\ Retired(h, i).shots = [h.shots EXCEPT ![i] = NoShot]
          BY <3>1, <4>2, RetiredCalm
        <4> QED
          BY <2>1, <4>1, <4>3
      <3> QED
        BY <2>1, <3>2, CalmTwice
    <2> QED
      BY <2>1
  <1>3. whole = after[n]
    BY Zenon DEF Through
  <1> HIDE DEF T, One, whole
  <1>4. PICK f : Runs(f, step, n, g) /\ Within(f, n, P)
    <2>1. g \in P[0] /\ Leading(step, n, P)
      BY <1>1, <1>2 DEF Leading
    <2> HIDE DEF P, step, n
    <2> QED
      BY <1>1, <2>1, LoopRuns
  <1>5. f = [i \in 0 .. n |-> IF i = 0 THEN g ELSE One(f[i - 1], i)]
    <2>1. ASSUME NEW i \in 1 .. n PROVE step[i][f[i - 1]] = One(f[i - 1], i)
      <3>1. i - 1 \in 0 .. n /\ P[i - 1] = T
        BY <1>1
      <3>2. f[i - 1] \in T
        BY <1>4, <3>1 DEF Within
      <3> QED
        BY <3>2
    <2> HIDE DEF step, P, after, whole
    <2>2. ASSUME NEW i \in 0 .. n PROVE f[i] = IF i = 0 THEN g ELSE One(f[i - 1], i)
      <3>1. f[i] = IF i = 0 THEN g ELSE step[i][f[i - 1]]
        BY <1>4 DEF Runs
      <3>2. i # 0 => i \in 1 .. n
        BY <1>1
      <3> QED
        BY <2>1, <3>1, <3>2
    <2>3. f = [i \in 0 .. n |-> f[i]]
      BY <1>4 DEF Runs
    <2> HIDE DEF n
    <2> QED
      BY <2>2, <2>3, Zenon
  <1>6. after = [i \in 0 .. n |-> IF i = 0 THEN g ELSE One(after[i - 1], i)]
    BY <1>5
  <1> HIDE DEF after
  <1>7. after[n] \in P[n]
    <2>1. ASSUME NEW i \in 1 .. n, after[i - 1] \in P[i - 1] PROVE after[i] \in P[i]
      BY <1>1, <1>2, <1>6, <2>1
    <2>2. after[0] \in P[0]
      BY <1>1, <1>6
    <2> HIDE DEF P, n
    <2> QED
      BY <1>1, <2>1, <2>2, LoopKeeps
  <1>8. P[n] = T
    BY <1>1
  <1> QED
    BY <1>3, <1>7, <1>8 DEF T, whole

-----------------------------------------------------------------------------
(* What a tick must keep *)

\* Who holds whom, the eddies and the bees with what they name, and the pickup: the
\* parts of the properties, each in a form that a tick keeps.
Holds(g, s, e) == Is(g, s, Freezing \cup Carrying) /\ g.shots[s].target = e
HeldOnce(g) ==
    /\ \A e \in Foes : \A s, t \in Slots : Holds(g, s, e) /\ Holds(g, t, e) => s = t
    /\ \A e \in Foes : \A x, y \in Effects : g.effects[x].target = e /\ g.effects[y].target = e => x = y
    /\ \A e \in Foes : \A s \in Slots, x \in Effects : ~(Holds(g, s, e) /\ g.effects[x].target = e)
    /\ \A e \in g.partner : \A s \in Slots : ~Holds(g, s, e)
    /\ \A e \in g.partner : \A x \in Effects : g.effects[x].target # e
    /\ \A s, t \in Slots : Is(g, s, Locking) /\ Is(g, t, Locking) /\ g.shots[s].target = g.shots[t].target => s = t
EddiesKept(g) ==
    /\ \A i \in Slots : Is(g, i, {"eddy"}) =>
          g.shots[i].target \in Slots /\ ~Is(g, g.shots[i].target, {"flame", "fired"})
    /\ \A t \in Slots : \E a, b \in Slots : \A i \in Slots :
          Is(g, i, {"eddy"}) /\ g.shots[i].target = t => i = a \/ i = b
BeesKept(g) ==
    /\ \A c, d \in CursorsOf(g) : g.shots[c].quad = g.shots[d].quad => c = d
    /\ \A b \in Slots : Is(g, b, {"bee"}) =>
          \E c \in Slots : Is(g, c, {"busy"}) /\ g.shots[c].quad = g.shots[b].quad
    /\ \A a, b \in Slots : Is(g, a, {"bee"}) /\ Is(g, b, {"bee"}) /\ g.shots[a].quad = g.shots[b].quad => a = b
ItemKept(g) ==
    g.item.taken => \E s \in Slots : Is(g, s, {"carry"}) /\ g.shots[s].kind = g.item.kind
Sides(g) == HeldOnce(g) /\ EddiesKept(g) /\ BeesKept(g) /\ ItemKept(g)

\* What is calm keeps the sides: who holds whom, the eddies, the bees, the pickup.
LEMMA CalmKeeps ==
    ASSUME NEW F, NEW g, Sides(g), NEW h \in Calm(g, F)
    PROVE  Sides(h)
  <1>1. Beside(h, g) /\ \A i \in Slots : Mild(g.shots[i], h.shots[i])
    BY DEF Calm
  <1>2. HeldOnce(h)
    <2>1. \A i \in Slots : \A e : Holds(h, i, e) => Holds(g, i, e)
      BY <1>1 DEF Mild, Holds, Is, Special, Freezing, Carrying, CursorForms, Locking
    <2>2. \A i \in Slots : Is(h, i, Locking) => Is(g, i, Locking) /\ h.shots[i].target = g.shots[i].target
      BY <1>1 DEF Mild, Is, Special, Freezing, Carrying, CursorForms, Locking
    <2>3. h.effects = g.effects /\ h.partner = g.partner
      BY <1>1 DEF Beside
    <2> QED
      BY <2>1, <2>2, <2>3 DEF Sides, HeldOnce
  <1>3. EddiesKept(h)
    <2>1. \A i \in Slots : Is(h, i, {"eddy"}) => Is(g, i, {"eddy"}) /\ h.shots[i].target = g.shots[i].target
      BY <1>1 DEF Mild, Is, Special, Freezing, Carrying, CursorForms, Locking
    <2>2. \A i \in Slots : Is(h, i, {"flame", "fired"}) => Is(g, i, {"flame", "fired"})
      BY <1>1 DEF Mild, Is, Special, Freezing, Carrying, CursorForms, Locking
    <2>3. ASSUME NEW t \in Slots
          PROVE  \E a, b \in Slots : \A i \in Slots : Is(h, i, {"eddy"}) /\ h.shots[i].target = t => i = a \/ i = b
      <3>1. PICK a \in Slots, b \in Slots :
               \A i \in Slots : Is(g, i, {"eddy"}) /\ g.shots[i].target = t => i = a \/ i = b
        BY DEF Sides, EddiesKept
      <3> QED
        BY <2>1, <3>1, ZenonT(60)
    <2>4. \A i \in Slots : Is(h, i, {"eddy"}) =>
             h.shots[i].target \in Slots /\ ~Is(h, h.shots[i].target, {"flame", "fired"})
      BY <2>1, <2>2 DEF Sides, EddiesKept
    <2> QED
      BY <2>3, <2>4 DEF EddiesKept
  <1>4. BeesKept(h)
    <2>1. \A i \in Slots : Is(h, i, CursorForms) => Is(g, i, CursorForms) /\ h.shots[i].quad = g.shots[i].quad
      BY <1>1 DEF Mild, Is, Special, Freezing, Carrying, CursorForms, Locking
    <2>2. \A i \in Slots : Is(h, i, {"bee"}) => Is(g, i, {"bee"}) /\ h.shots[i].quad = g.shots[i].quad
      BY <1>1 DEF Mild, Is, Special, Freezing, Carrying, CursorForms, Locking
    <2>3. \A i \in Slots : Is(g, i, {"busy"}) => Is(h, i, {"busy"}) /\ h.shots[i].quad = g.shots[i].quad
      BY <1>1 DEF Mild, Is, Special, Freezing, Carrying, CursorForms, Locking
    <2> QED
      BY <2>1, <2>2, <2>3 DEF Sides, BeesKept, CursorsOf
  <1>5. ItemKept(h)
    <2>1. \A i \in Slots : Is(g, i, {"carry"}) => Is(h, i, {"carry"}) /\ h.shots[i].kind = g.shots[i].kind
      BY <1>1 DEF Mild, Is, Special, Freezing, Carrying, CursorForms, Locking
    <2>2. h.item = g.item
      BY <1>1 DEF Beside
    <2> QED
      BY <2>1, <2>2 DEF Sides, ItemKept
  <1> QED
    BY <1>2, <1>3, <1>4, <1>5 DEF Sides

\* A record that becomes another, mildly.
LEMMA MildCalm ==
    ASSUME NEW F, NEW g, Sound(g, F), NEW s \in Slots, g.shots[s].form # "none",
           NEW r \in Kids(F), Mild(g.shots[s], r), NEW h, h = [g EXCEPT !.shots[s] = r]
    PROVE  h \in Calm(g, F)
  <1>1. g \in Arenas(F) /\ r \in ShotRecords(F) /\ r.form \notin {"none", "fired"} /\ r.age # "new"
    BY DEF Sound, Kids
  <1>2. h \in Arenas(F)
    BY <1>1 DEF Arenas
  <1>3. h.shots = [g.shots EXCEPT ![s] = r] /\ h.actors = g.actors /\ h.count = g.count /\ Beside(h, g)
    BY <1>1 DEF Arenas, Beside
  <1>4. Shaped(h) /\ Owning(h) /\ Recorded(h) /\ Counted(h)
    BY <1>1, <1>3 DEF Sound, Shaped, Owning, Recorded, Counted, Arenas
  <1>5. \A i \in Slots : Mild(g.shots[i], h.shots[i])
    <2>1. \A i \in Slots : h.shots[i] = g.shots[i] \/ (i = s /\ h.shots[i] = r)
      BY <1>1, <1>3 DEF Arenas
    <2>2. \A p : Mild(p, p)
      BY DEF Mild
    <2> QED
      BY <2>1, <2>2
  <1> QED
    BY <1>2, <1>3, <1>4, <1>5 DEF Calm, Sound

\* The triad thunder's forms are of no special interest.
LEMMA TriadPlain ==
    /\ "none" \in TriadForms /\ {"carry", "busy"} \cap TriadForms = {}
    /\ {"orb", "ready", "linked", "wave", "storm", "quake", "quaked", "running", "link", "bolt", "falling"}
          \subseteq Plain(TriadForms)
  BY DEF TriadForms, Plain, Special, Freezing, Carrying, CursorForms, Locking

\* A triad thunder starts: the charged one first clears the slots, then places its orbs.
LEMMA TriadStartCalm ==
    ASSUME NEW g, Sound(g, TriadForms), NEW s \in Slots, Fresh(g, s)
    PROVE  TriadStart(g, s) \subseteq Calm(g, TriadForms)
  <1> DEFINE F == TriadForms
             p == g.shots[s]
             h == Through(LAMBDA f, i : IF i = s THEN f ELSE Retired(f, i), g, SlotCount)
             orb(i) == [Child(p, "orb") EXCEPT !.quad = i]
             o == Start(g, s, "orb")
             three == Spawned(o, <<orb(1), orb(2)>>)
  <1>1. p.form = "fired" /\ p \in ShotRecords(F)
    BY ShotFields DEF Sound, Shaped, Fresh
  <1>2. Retired(g, s) \in Calm(g, F)
    BY <1>1, TriadPlain, RetiredCalm
  <1>3. Launch(h, s, FALSE, "storm", <<"wave", "wave">>) \subseteq Calm(g, F)
    <2>1. h \in Calm(g, F) /\ h.shots[s] = g.shots[s]
      BY TriadPlain, RestRetired
    <2>2. Sound(h, F) /\ Fresh(h, s)
      BY <2>1 DEF Calm, Fresh
    <2> HIDE DEF h
    <2>3. <<"wave", "wave">> \in Seq(Plain(F)) /\ "storm" \in Plain(F)
      BY TriadPlain, ShortSequences
    <2>4. Launch(h, s, FALSE, "storm", <<"wave", "wave">>) \subseteq Calm(h, F)
      BY <2>2, <2>3, TriadPlain, LaunchCalm
    <2> QED
      BY <2>1, <2>4, CalmTwice
  <1>4. three \in Calm(g, F)
    <2>1. "orb" \in Plain(F)
      BY TriadPlain
    <2>2. o \in Calm(g, F) /\ Sound(o, F)
      BY <2>1, StartCalm DEF Calm
    <2>3. Child(p, "orb") \in PlainKids(F)
      BY <1>1, <2>1, ChildPlain
    <2>4. \A i \in Int : orb(i) \in PlainKids(F)
      BY <2>3 DEF PlainKids, Kids, ShotRecords
    <2> HIDE DEF o, orb
    <2>5. three \in Calm(o, F)
      <3> DEFINE records == <<orb(1), orb(2)>>
      <3>1. Len(records) = 2 /\ \A i \in 1 .. 2 : records[i] \in PlainKids(F)
        BY <2>4
      <3> HIDE DEF records
      <3>2. Spawned(o, records) \in Calm(o, F)
        BY <2>2, <3>1, SpawnedCalm
      <3> QED
        BY <3>2 DEF records
    <2> QED
      BY <2>2, <2>5, CalmTwice
  <1>5. TriadStart(g, s) \subseteq
           {Retired(g, s), three} \cup
           (IF p.charged THEN Launch(h, s, FALSE, "storm", <<"wave", "wave">>) ELSE {})
    <2> HIDE DEF three
    <2> QED
      BY DEF TriadStart, three
  <1> HIDE DEF h, three
  <1> QED
    BY <1>2, <1>3, <1>4, <1>5

\* The triangle's links are renewed.
LEMMA RenewCalm ==
    ASSUME NEW g, Sound(g, TriadForms), NEW s \in Slots, g.shots[s].form = "linked"
    PROVE  TriadRenew(g, s) \in Calm(g, TriadForms)
  <1> DEFINE F == TriadForms
             c == g.shots[s].clock + 1
             sh == [i \in Slots |-> IF Is(g, i, Turning)
                                    THEN [g.shots[i] EXCEPT !.form = "orb", !.age = "born", !.clock = c]
                                    ELSE g.shots[i]]
  <1>1. g \in Arenas(F) /\ g.shots \in [Slots -> ShotRecords(F)] /\ c \in Int
    BY ShotFields DEF Sound, ShotRecords, Arenas
  <1> HIDE DEF c
  <1>2. \A i \in Slots : Is(g, i, Turning) => sh[i] \in PlainKids(F)
    <2> SUFFICES ASSUME NEW i \in Slots
                 PROVE  [g.shots[i] EXCEPT !.form = "orb", !.age = "born", !.clock = c] \in PlainKids(F)
      OBVIOUS
    <2>1. "orb" \in F /\ "orb" \notin Special \cup {"none", "fired"}
      BY DEF TriadForms, Special, Freezing, Carrying, CursorForms, Locking
    <2> QED
      BY <1>1, <2>1 DEF PlainKids, Kids, ShotRecords
  <1>3. sh \in [Slots -> ShotRecords(F)]
    BY <1>1, <1>2 DEF PlainKids, Kids
  <1>4. \A i \in Slots : \/ sh[i] = g.shots[i]
                         \/ sh[i] \in PlainKids(F) /\ g.shots[i].form \notin {"none", "carry", "busy"}
    BY <1>2 DEF Is, Turning
  <1>5. TriadRenew(g, s) = [g EXCEPT !.shots = sh]
    BY <1>1 DEF TriadRenew, c, Arenas
  <1> HIDE DEF sh
  <1> QED
    BY <1>3, <1>4, <1>5, RecordsCalm

\* The triad thunder's tick.
LEMMA TriadCalm ==
    ASSUME NEW g, Sound(g, TriadForms), NEW s \in Slots, g.shots[s].form # "none"
    PROVE  TriadTick(g, s) \subseteq Calm(g, TriadForms)
  <1> DEFINE F == TriadForms
             p == g.shots[s]
             q == [p EXCEPT !.quad = 0]
             kid(form) == Child(q, form)
             links == IF p.quad = 0 THEN <<kid("link"), kid("link"), kid("link")>> ELSE <<>>
             course == [storm |-> {To("quake")}, quake |-> {To("quaked")}, quaked |-> {},
                        running |-> {}, link |-> {}, bolt |-> {}, falling |-> {}]
             flying == {"storm", "quake", "quaked", "running", "link", "bolt", "falling"}
             linked == Spawned(Into(g, s, "linked"), links)
             falling == Into(Spawned(g, <<kid("bolt")>>), s, "falling")
  <1>1. p.form \in F /\ p.form \notin {"none", "carry", "busy"} /\ p \in ShotRecords(F)
    BY TriadPlain, ShotFields DEF Sound, ShotRecords
  <1>2. Retired(g, s) \in Calm(g, F) /\ g \in Calm(g, F)
    BY <1>1, TriadPlain, RetiredCalm, CalmItself
  <1>3. CASE Fresh(g, s)
    <2>1. p.form = "fired" /\ p.age = "new"
      BY <1>3 DEF Sound, Shaped, Fresh
    <2>2. TriadTick(g, s) = TriadStart(g, s)
      BY <1>3, <2>1 DEF TriadTick
    <2> QED
      BY <1>3, <2>2, TriadStartCalm
  <1>4. CASE ~Fresh(g, s)
    <2>1. p.form # "fired"
      BY <1>4 DEF Sound, Shaped, Fresh
    <2>2. \A form \in {"ready", "linked", "falling", "running"} : Into(g, s, form) \in Calm(g, F)
      BY <1>1, <2>1, TriadPlain, IntoCalm
    <2>3. q \in ShotRecords(F)
      BY <1>1 DEF ShotRecords
    <2>4. kid("link") \in PlainKids(F) /\ kid("bolt") \in PlainKids(F)
      <3> HIDE DEF q
      <3> QED
        BY <2>3, TriadPlain, ChildPlain
    <2> HIDE DEF kid
    <2>5. linked \in Calm(g, F)
      <3>1. Len(links) \in Nat /\ \A i \in 1 .. Len(links) : links[i] \in PlainKids(F)
        BY <2>4
      <3> HIDE DEF links
      <3>2. Sound(Into(g, s, "linked"), F) /\ Into(g, s, "linked") \in Calm(g, F)
        BY <2>2 DEF Calm
      <3>3. linked \in Calm(Into(g, s, "linked"), F)
        BY <3>1, <3>2, SpawnedCalm
      <3> QED
        BY <3>2, <3>3, CalmTwice
    <2>6. falling \in Calm(g, F)
      <3> DEFINE k == Spawned(g, <<kid("bolt")>>)
      <3>1. k \in Calm(g, F) /\ k.shots[s] = p
        BY <1>1, <2>4, OneKidCalm
      <3>2. Sound(k, F)
        BY <3>1 DEF Calm
      <3> HIDE DEF k
      <3>3. Into(k, s, "falling") \in Calm(k, F)
        BY <1>1, <2>1, <3>1, <3>2, TriadPlain, IntoCalm
      <3> QED
        BY <3>1, <3>3, CalmTwice DEF k
    <2>7. p.form = "linked" => TriadRenew(g, s) \in Calm(g, F)
      BY RenewCalm
    <2>8. p.form \in flying => Fly(g, s, course) \subseteq Calm(g, F)
      <3>1. To("quake") \in Ways(F) /\ To("quaked") \in Ways(F)
        BY TriadPlain, WaysOf
      <3>2. p.form \in flying => course[p.form] \subseteq Ways(F)
        BY <3>1
      <3> HIDE DEF course
      <3> QED
        BY <1>1, <2>1, <3>2, TriadPlain, FlyCalm
    <2>9. TriadTick(g, s) \subseteq
             {g, Retired(g, s), Into(g, s, "ready"), Into(g, s, "running"), linked, falling}
             \cup (IF p.form = "linked" THEN {TriadRenew(g, s)} ELSE {})
             \cup (IF p.form \in flying THEN Fly(g, s, course) ELSE {})
      <3> HIDE DEF linked, falling, course, links
      <3>1. p.form \in {"orb", "ready", "linked", "wave"} \cup flying
        BY <1>1, <2>1 DEF TriadForms
      <3> QED
        BY <1>4, <3>1 DEF TriadTick, linked, falling, course, links, kid
    <2> HIDE DEF course, linked, falling, flying
    <2> QED
      BY <1>2, <2>2, <2>5, <2>6, <2>7, <2>8, <2>9
  <1> QED
    BY <1>3, <1>4

-----------------------------------------------------------------------------
(* The speed burner *)

\* What every new child keeps, all of them keep.
LEMMA SpawnedRuns ==
    ASSUME NEW g, NEW records, NEW n \in Nat, Len(records) = n, NEW P, g \in P[0],
           \A i \in 1 .. n : \A h \in P[i - 1] : SpawnChild(h, records[i]) \in P[i]
    PROVE  Spawned(g, records) \in P[n]
  <1> DEFINE step == [i \in 1 .. n |-> [h \in P[i - 1] |-> SpawnChild(h, records[i])]]
             IsLoop(f) == f = [i \in 0 .. n |-> IF i = 0 THEN g ELSE SpawnChild(f[i - 1], records[i])]
             after == CHOOSE f : IsLoop(f)
  <1>1. Spawned(g, records) = after[n]
    BY Zenon DEF Spawned, Through
  <1>2. PICK f : Runs(f, step, n, g) /\ Within(f, n, P)
    <2>1. Leading(step, n, P)
      BY DEF Leading
    <2> HIDE DEF step
    <2> QED
      BY <2>1, LoopRuns
  <1>3. IsLoop(f)
    <2>1. ASSUME NEW i \in 1 .. n PROVE step[i][f[i - 1]] = SpawnChild(f[i - 1], records[i])
      <3>1. i - 1 \in 0 .. n
        OBVIOUS
      <3>2. f[i - 1] \in P[i - 1]
        BY <1>2, <3>1 DEF Within
      <3> QED
        BY <3>2
    <2> HIDE DEF step
    <2> QED
      BY <1>2, <2>1 DEF Runs
  <1>4. IsLoop(after)
    BY <1>3
  <1> HIDE DEF after
  <1>5. ASSUME NEW i \in 1 .. n, after[i - 1] \in P[i - 1] PROVE after[i] \in P[i]
    <2>1. i \in 0 .. n /\ i # 0
      OBVIOUS
    <2> QED
      BY <1>4, <1>5, <2>1
  <1>6. after[0] \in P[0]
    BY <1>4
  <1>7. after[n] \in P[n]
    <2> HIDE DEF IsLoop
    <2> QED
      BY <1>5, <1>6, LoopKeeps
  <1> QED
    BY <1>1, <1>7

\* What a tick of a weapon with the forms F starts from and must give back.
Safe(F) == {g \in Arenas(F) : Sound(g, F) /\ Sides(g)}

\* A calm change of a safe arena leaves it safe.
LEMMA CalmSafe ==
    ASSUME NEW F, NEW g \in Safe(F), NEW h \in Calm(g, F)
    PROVE  h \in Safe(F)
  <1>1. Sides(g)
    BY DEF Safe
  <1>2. Sides(h)
    BY <1>1, CalmKeeps
  <1> QED
    BY <1>2 DEF Safe, Calm

\* Records that neither hold nor lock leave who holds whom as it is.
LEMMA HeldSame ==
    ASSUME NEW g, HeldOnce(g), NEW h, Beside(h, g),
           \A i \in Slots : h.shots[i] = g.shots[i] \/ h.shots[i].form \notin Freezing \cup Carrying \cup Locking
    PROVE  HeldOnce(h)
  <1>1. \A i \in Slots : \A e : Holds(h, i, e) => Holds(g, i, e)
    BY DEF Holds, Is
  <1>2. \A i \in Slots : Is(h, i, Locking) => Is(g, i, Locking) /\ h.shots[i] = g.shots[i]
    BY DEF Is
  <1> QED
    BY <1>1, <1>2 DEF HeldOnce, Beside

\* A shot has one of the forms of its arena.
LEMMA FormOf ==
    ASSUME NEW F, NEW g \in Arenas(F), NEW s \in Slots
    PROVE  g.shots[s].form \in F
  BY ShotFields DEF ShotRecords

\* A weapon without eddies keeps them.
LEMMA NoEddies ==
    ASSUME NEW F, "eddy" \notin F, NEW g \in Arenas(F)
    PROVE  EddiesKept(g)
  <1>1. \A i \in Slots : ~Is(g, i, {"eddy"})
    BY FormOf DEF Is
  <1> QED
    BY <1>1 DEF EddiesKept

\* A weapon without bees and cursors keeps them.
LEMMA NoBees ==
    ASSUME NEW F, "bee" \notin F, CursorForms \cap F = {}, NEW g \in Arenas(F)
    PROVE  BeesKept(g)
  <1>1. \A i \in Slots : ~Is(g, i, {"bee"}) /\ i \notin CursorsOf(g)
    BY FormOf DEF Is, CursorsOf
  <1> QED
    BY <1>1 DEF BeesKept, CursorsOf

\* A weapon that carries nothing leaves the pickup where it is.
LEMMA NoCarries ==
    ASSUME NEW F, "carry" \notin F, NEW g \in Arenas(F), ItemKept(g), NEW h, h.item = g.item
    PROVE  ItemKept(h)
  <1>1. \A i \in Slots : ~Is(g, i, {"carry"})
    BY FormOf DEF Is
  <1> QED
    BY <1>1 DEF ItemKept

\* Two children of one kind take two slots at most.
Twins(r) == <<r, r>>
TwinGrown(w, g, F, r) ==
    /\ w \in Grown(g, F, {r})
    /\ \E a, b \in Slots : \A i \in Slots \ {a, b} : w.shots[i] = g.shots[i]
\* Two children alike take two slots at most.
LEMMA TwinsGrow ==
    ASSUME NEW F, NEW g, Sound(g, F), NEW r \in Kids(F)
    PROVE  TwinGrown(Spawned(g, Twins(r)), g, F, r)
  <1> DEFINE One(h) == \E a \in Slots : \A i \in Slots \ {a} : h.shots[i] = g.shots[i]
             Two(h) == \E a, b \in Slots : \A i \in Slots \ {a, b} : h.shots[i] = g.shots[i]
             P == [m \in 0 .. 2 |-> IF m = 0 THEN {g} ELSE IF m = 1 THEN {h \in Grown(g, F, {r}) : One(h)}
                                    ELSE {h \in Grown(g, F, {r}) : Two(h)}]
             twins == Twins(r)
             w == Spawned(g, twins)
  <1>1. g \in Grown(g, F, {r})
    BY DEF Grown, Beside, Sound
  <1>2. ASSUME NEW h \in Grown(g, F, {r})
        PROVE  /\ SpawnChild(h, r) \in Grown(g, F, {r})
               /\ \E s \in Slots : \A i \in Slots \ {s} : SpawnChild(h, r).shots[i] = h.shots[i]
    <2> DEFINE k == SpawnChild(h, r)
    <2>1. Sound(h, F)
      BY DEF Grown
    <2>2. k \in Grown(h, F, {r}) /\ \E s \in Slots : k.shots \in {h.shots, [h.shots EXCEPT ![s] = r]}
      BY <2>1, SpawnChildGrows
    <2> HIDE DEF k
    <2>3. k \in Grown(g, F, {r})
      BY <2>2 DEF Grown, Beside
    <2>4. PICK s \in Slots : k.shots \in {h.shots, [h.shots EXCEPT ![s] = r]}
      BY <2>2
    <2>5. \A i \in Slots \ {s} : k.shots[i] = h.shots[i]
      BY <2>1, <2>4 DEF Sound, Arenas
    <2> QED
      BY <2>3, <2>5 DEF k
  <1>3. SpawnChild(g, r) \in P[1]
    <2>1. SpawnChild(g, r) \in Grown(g, F, {r}) /\ One(SpawnChild(g, r))
      BY <1>1, <1>2
    <2> HIDE DEF One
    <2> QED
      BY <2>1
  <1>4. ASSUME NEW h \in P[1] PROVE SpawnChild(h, r) \in P[2]
    <2>1. h \in Grown(g, F, {r}) /\ One(h)
      OBVIOUS
    <2>2. PICK a \in Slots : \A i \in Slots \ {a} : h.shots[i] = g.shots[i]
      BY <2>1
    <2>3. PICK s \in Slots : \A i \in Slots \ {s} : SpawnChild(h, r).shots[i] = h.shots[i]
      BY <1>2, <2>1
    <2>4. \A i \in Slots \ {a, s} : SpawnChild(h, r).shots[i] = g.shots[i]
      BY <2>2, <2>3
    <2>5. Two(SpawnChild(h, r)) /\ SpawnChild(h, r) \in Grown(g, F, {r})
      BY <1>2, <2>1, <2>4
    <2> HIDE DEF Two
    <2> QED
      BY <2>5
  <1>5. Spawned(g, twins) \in P[2]
    <2>1. Len(twins) = 2 /\ twins[1] = r /\ twins[2] = r /\ g \in P[0]
      BY DEF Twins
    <2>2. \A h \in P[0] : h = g
      OBVIOUS
    <2> HIDE DEF P, twins
    <2>3. ASSUME NEW m \in 1 .. 2, NEW h \in P[m - 1] PROVE SpawnChild(h, twins[m]) \in P[m]
      <3>1. CASE m = 1
        BY <1>3, <2>1, <2>2, <3>1
      <3>2. CASE m = 2
        BY <1>4, <2>1, <3>2
      <3> QED
        BY <3>1, <3>2
    <2> QED
      BY <2>1, <2>3, SpawnedRuns
  <1>6. w \in Grown(g, F, {r}) /\ Two(w)
    <2> HIDE DEF Two
    <2> QED
      BY <1>5
  <1> QED
    BY <1>6 DEF TwinGrown

BurnerForms == {"none", "fired", "fade", "flame", "wet", "eddy", "ground", "dash"}

\* The forms of the speed burner.
LEMMA BurnerPlain ==
    /\ "none" \in BurnerForms /\ {"carry", "busy"} \cap BurnerForms = {}
    /\ {"fade", "wet", "ground", "dash"} \subseteq Plain(BurnerForms)
    /\ (Freezing \cup Carrying \cup CursorForms \cup {"bee"}) \cap BurnerForms = {}
  BY DEF BurnerForms, Plain, Special, Freezing, Carrying, CursorForms, Locking

\* A burner shot into water becomes two eddies, both of which name its slot.
LEMMA WetSafe ==
    ASSUME NEW g \in Safe(BurnerForms), NEW s \in Slots, g.shots[s].form = "flame"
    PROVE  Wet(g, s) \in Safe(BurnerForms)
  <1> DEFINE F == BurnerForms
             p == g.shots[s]
             k == Into(g, s, "wet")
             eddy == [Child(p, "eddy") EXCEPT !.target = s]
             w == Wet(g, s)
  <1>1. Sound(g, F) /\ Sides(g) /\ g \in Arenas(F) /\ p \in ShotRecords(F) /\ s \in Int
    BY ShotFields DEF Safe, Sound, Slots
  <1>2. k \in Calm(g, F) /\ k \in Safe(F) /\ Sound(k, F)
    BY <1>1, BurnerPlain, IntoCalm, CalmSafe DEF Calm
  <1>3. eddy \in Kids(F) /\ eddy.form = "eddy" /\ eddy.target = s
    <2>1. "eddy" \in F
      BY DEF BurnerForms
    <2>2. Child(p, "eddy") \in ShotRecords(F) /\ Child(p, "eddy").form = "eddy" /\ Child(p, "eddy").age = "born"
      BY <1>1, <2>1, ChildRecord
    <2> QED
      BY <1>1, <2>2 DEF Kids, ShotRecords
  <1>4. w = Spawned(k, Twins(eddy))
    BY DEF Wet, Twins
  <1>5. k.shots[s].form = "wet" /\ \A i \in Slots \ {s} : k.shots[i] = g.shots[i]
    BY <1>1 DEF Into, Arenas, ShotRecords
  <1> HIDE DEF k, eddy, w
  <1>12. TwinGrown(w, k, F, eddy)
    BY <1>2, <1>3, <1>4, TwinsGrow
  <1>6. PICK a \in Slots, b \in Slots : \A i \in Slots \ {a, b} : w.shots[i] = k.shots[i]
    BY <1>12 DEF TwinGrown
  <1>7. /\ Sound(w, F) /\ w \in Arenas(F) /\ Beside(w, k)
        /\ \A i \in Slots : w.shots[i] = k.shots[i] \/ (w.shots[i] = eddy /\ k.shots[i].form = "none")
    BY <1>12 DEF TwinGrown, Grown, Sound
  <1>8. \A i \in Slots : Is(k, i, {"eddy"}) => k.shots[i].target # s
    <2>1. \A i \in Slots : Is(k, i, {"eddy"}) => Is(g, i, {"eddy"}) /\ k.shots[i] = g.shots[i]
      BY <1>5 DEF Is
    <2> QED
      <3>1. Is(g, s, {"flame", "fired"})
        BY DEF Is
      <3>2. \A i \in Slots : Is(g, i, {"eddy"}) => ~Is(g, g.shots[i].target, {"flame", "fired"})
        BY <1>1 DEF Sides, EddiesKept
      <3> QED
        BY <2>1, <3>1, <3>2
  <1>9. HeldOnce(w)
    <2>1. HeldOnce(k) /\ eddy.form \notin Freezing \cup Carrying \cup Locking
      BY <1>2, <1>3 DEF Safe, Sides, Freezing, Carrying, Locking
    <2> QED
      BY <1>7, <2>1, HeldSame
  <1>10. BeesKept(w) /\ ItemKept(w)
    <2>1. w.item = g.item /\ ItemKept(g)
      BY <1>1, <1>2, <1>7 DEF Sides, Calm, Beside
    <2> QED
      BY <1>1, <1>7, <2>1, BurnerPlain, NoBees, NoCarries
  <1>11. EddiesKept(w)
    <2>1. \A i \in Slots : Is(w, i, {"eddy"}) =>
            \/ Is(k, i, {"eddy"}) /\ w.shots[i] = k.shots[i]
            \/ i \in {a, b} /\ w.shots[i].target = s
      BY <1>3, <1>6, <1>7 DEF Is
    <2>2. EddiesKept(k)
      BY <1>2 DEF Safe, Sides
    <2>3. \A i \in Slots : Is(w, i, {"flame", "fired"}) => Is(k, i, {"flame", "fired"})
      BY <1>3, <1>7 DEF Is
    <2>4. \A i \in Slots : Is(w, i, {"eddy"}) =>
             w.shots[i].target \in Slots /\ ~Is(w, w.shots[i].target, {"flame", "fired"})
      <3>1. ~Is(k, s, {"flame", "fired"})
        BY <1>5 DEF Is
      <3> QED
        BY <2>1, <2>2, <2>3, <3>1 DEF EddiesKept
    <2>5. ASSUME NEW t \in Slots
          PROVE  \E c, d \in Slots : \A i \in Slots : Is(w, i, {"eddy"}) /\ w.shots[i].target = t => i = c \/ i = d
      <3>1. CASE t = s
        <4>1. \A i \in Slots : Is(w, i, {"eddy"}) /\ w.shots[i].target = t => i = a \/ i = b
          BY <1>8, <2>1, <3>1
        <4> QED
          BY <4>1
      <3>2. CASE t # s
        <4>1. PICK c \in Slots, d \in Slots :
                 \A i \in Slots : Is(k, i, {"eddy"}) /\ k.shots[i].target = t => i = c \/ i = d
          BY <2>2 DEF EddiesKept
        <4>2. \A i \in Slots : Is(w, i, {"eddy"}) /\ w.shots[i].target = t => i = c \/ i = d
          BY <2>1, <3>2, <4>1
        <4> QED
          BY <4>2
      <3> QED
        BY <3>1, <3>2
    <2> QED
      BY <2>4, <2>5 DEF EddiesKept
  <1> QED
    BY <1>7, <1>9, <1>10, <1>11 DEF Safe, Sides, w

\* A fired burner becomes a flame.
LEMMA FlameCalm ==
    ASSUME NEW g, Sound(g, BurnerForms), NEW s \in Slots, Fresh(g, s)
    PROVE  Start(g, s, "flame") \in Calm(g, BurnerForms) /\ Start(g, s, "flame").shots[s].form = "flame"
  <1> DEFINE F == BurnerForms
             r == [g.shots[s] EXCEPT !.form = "flame", !.age = "born"]
  <1>1. g \in Arenas(F) /\ g.shots[s] \in ShotRecords(F) /\ g.shots[s].form = "fired"
    BY ShotFields DEF Sound, Shaped, Fresh
  <1>2. r \in Kids(F) /\ r.form = "flame"
    <2>1. "flame" \in F
      BY DEF BurnerForms
    <2> QED
      BY <1>1, <2>1 DEF Kids, ShotRecords
  <1>3. Start(g, s, "flame") = [g EXCEPT !.shots[s] = r]
    BY <1>1 DEF Start, Arenas, ShotRecords
  <1>4. Mild(g.shots[s], r)
    BY <1>1, <1>2 DEF Mild
  <1> HIDE DEF r
  <1>5. Start(g, s, "flame") \in Calm(g, F)
    BY <1>1, <1>2, <1>3, <1>4, MildCalm
  <1>6. Start(g, s, "flame").shots[s] = r
    BY <1>1, <1>3 DEF Arenas
  <1> QED
    BY <1>2, <1>5, <1>6

\* The speed burner's tick: two eddies at most name a slot, and neither names a live flame.
LEMMA SpeedSafe ==
    ASSUME NEW g \in Safe(BurnerForms), NEW s \in Slots, g.shots[s].form # "none"
    PROVE  SpeedTick(g, s) \subseteq Safe(BurnerForms)
  <1> DEFINE F == BurnerForms
             p == g.shots[s]
             h == Start(g, s, "flame")
             lit == Spawned(h, Children(h.shots[s], <<>>))
             fire == [flame |-> {<<"flame", <<"ground">>>>, To("fade")}]
             course == [wet |-> {}, eddy |-> {}, ground |-> {To("fade")}, dash |-> {}]
  <1>1. /\ Sound(g, F) /\ g \in Arenas(F) /\ p \in ShotRecords(F)
        /\ p.form \in F /\ p.form \notin {"none", "carry", "busy"}
    BY ShotFields, FormOf, BurnerPlain DEF Safe, Sound
  <1>2. Retired(g, s) \in Calm(g, F) /\ g \in Calm(g, F)
    BY <1>1, BurnerPlain, RetiredCalm, CalmItself
  <1>3. CASE Fresh(g, s)
    <2>1. p.form = "fired" /\ p.age = "new"
      BY <1>1, <1>3 DEF Sound, Shaped, Fresh
    <2>2. Launch(g, s, FALSE, "dash", <<>>) \subseteq Calm(g, F)
      <3>1. "dash" \in Plain(F) /\ <<>> \in Seq(Plain(F))
        BY BurnerPlain, ShortSequences
      <3> QED
        BY <1>1, <1>3, <3>1, BurnerPlain, LaunchCalm
    <2>3. h \in Calm(g, F) /\ h.shots[s].form = "flame" /\ h \in Safe(F) /\ Sound(h, F)
      BY <1>1, <1>3, FlameCalm, CalmSafe DEF Calm
    <2>4. lit \in Calm(g, F)
      <3> DEFINE records == Children(h.shots[s], <<>>)
      <3>1. Len(records) = 0
        BY DEF Children
      <3> HIDE DEF records, h
      <3>2. Spawned(h, records) \in Calm(h, F)
        BY <2>3, <3>1, SpawnedCalm
      <3> QED
        BY <2>3, <3>2, CalmTwice DEF records
    <2>5. Wet(h, s) \in Safe(F)
      <3> HIDE DEF h
      <3> QED
        BY <2>3, WetSafe
    <2>6. SpeedTick(g, s) \subseteq {Retired(g, s), lit, Wet(h, s)} \cup Launch(g, s, FALSE, "dash", <<>>)
      <3>1. Launch(g, s, FALSE, "flame", <<>>) = {Retired(g, s), lit}
        BY DEF Launch
      <3> HIDE DEF lit, h
      <3> QED
        BY <1>3, <2>1, <3>1 DEF SpeedTick, h
    <2> HIDE DEF lit, h
    <2> QED
      BY <1>2, <2>2, <2>4, <2>5, <2>6, CalmSafe
  <1>4. CASE ~Fresh(g, s)
    <2>1. p.form # "fired"
      BY <1>1, <1>4 DEF Sound, Shaped, Fresh
    <2>2. p.form \in {"wet", "eddy", "ground", "dash", "fade"} => Fly(g, s, course) \subseteq Calm(g, F)
      <3>1. To("fade") \in Ways(F)
        BY BurnerPlain, WaysOf
      <3>2. p.form \in {"wet", "eddy", "ground", "dash"} => course[p.form] \subseteq Ways(F)
        BY <3>1
      <3> HIDE DEF course
      <3> QED
        BY <1>1, <2>1, <3>2, BurnerPlain, FlyCalm
    <2>3. p.form = "flame" => Fly(g, s, fire) \subseteq Safe(F)
      <3> DEFINE k == Spawned(g, Children(p, <<"ground">>))
                 burnt == Into(Spawned(g, Children(p, <<>>)), s, "fade")
                 r == [p EXCEPT !.form = "flame"]
      <3> SUFFICES ASSUME p.form = "flame" PROVE Fly(g, s, fire) \subseteq Safe(F)
        OBVIOUS
      <3>1. k \in Calm(g, F) /\ k.shots[s] = p
        <4> DEFINE records == Children(p, <<"ground">>)
        <4>1. <<"ground">> \in Seq(Plain(F))
          BY BurnerPlain, ShortSequences
        <4>2. Len(records) \in Nat /\ \A i \in 1 .. Len(records) : records[i] \in PlainKids(F)
          BY <1>1, <4>1, ChildrenPlain
        <4> HIDE DEF records
        <4>3. /\ Spawned(g, records) \in Calm(g, F)
              /\ \A i \in Slots : g.shots[i].form # "none" => Spawned(g, records).shots[i] = g.shots[i]
          BY <1>1, <4>2, SpawnedCalm
        <4> QED
          BY <1>1, <4>3 DEF records
      <3>2. Into(k, s, "flame") \in Calm(g, F)
        <4>1. Sound(k, F) /\ r \in Kids(F) /\ Mild(p, r)
          BY <1>1, <2>1, <3>1 DEF Calm, Kids, ShotRecords, Mild, Sound, Shaped
        <4>2. Into(k, s, "flame") = [k EXCEPT !.shots[s] = r]
          BY <3>1 DEF Into
        <4> HIDE DEF k, r
        <4>3. Into(k, s, "flame") \in Calm(k, F)
          BY <1>1, <3>1, <4>1, <4>2, MildCalm
        <4> QED
          BY <3>1, <4>3, CalmTwice
      <3>3. burnt \in Calm(g, F)
        <4> DEFINE only == [flame |-> {To("fade")}]
        <4>1. only[p.form] \subseteq Ways(F)
          <5>1. To("fade") \in Ways(F)
            BY BurnerPlain, WaysOf
          <5> QED
            BY <5>1
        <4>2. Fly(g, s, only) \subseteq Calm(g, F)
          <5> HIDE DEF only
          <5> QED
            BY <1>1, <2>1, <4>1, BurnerPlain, FlyCalm
        <4>3. p.age # "born" => burnt \in Fly(g, s, only)
          <5>1. To("fade") \in only[p.form] /\ To("fade")[1] = "fade" /\ To("fade")[2] = <<>>
            BY DEF To
          <5> HIDE DEF only
          <5> QED
            BY <5>1 DEF Fly
        <4>4. p.age = "born" => burnt \in Calm(g, F)
          <5>1. Len(Children(p, <<>>)) = 0
            BY DEF Children
          <5>2. Spawned(g, Children(p, <<>>)) \in Calm(g, F) /\ Spawned(g, Children(p, <<>>)).shots[s] = p
            BY <1>1, <5>1, SpawnedCalm
          <5> QED
            BY <1>1, <2>1, <5>2, BurnerPlain, IntoCalm, CalmTwice DEF Calm
        <4> QED
          BY <4>2, <4>3, <4>4
      <3>4. Fly(g, s, fire) \subseteq {g, Retired(g, s), Into(k, s, "flame"), burnt}
        <4>1. fire[p.form] = {<<"flame", <<"ground">>>>, <<"fade", <<>>>>}
          BY DEF To
        <4> HIDE DEF fire
        <4> QED
          BY <4>1 DEF Fly
      <3> HIDE DEF k, burnt, fire
      <3> QED
        BY <1>2, <3>2, <3>3, <3>4, CalmSafe
    <2>4. p.form = "flame" => Wet(g, s) \in Safe(F)
      BY WetSafe
    <2>9. SpeedTick(g, s) \subseteq
             {g, Retired(g, s)} \cup (IF p.form = "flame" THEN {Wet(g, s)} \cup Fly(g, s, fire) ELSE {})
             \cup (IF p.form \in {"wet", "eddy", "ground", "dash", "fade"} THEN Fly(g, s, course) ELSE {})
      <3> HIDE DEF course, fire
      <3>1. p.form \in {"flame", "wet", "eddy", "ground", "dash", "fade"}
        BY <1>1, <2>1 DEF BurnerForms
      <3> QED
        BY <1>4, <3>1 DEF SpeedTick, course, fire
    <2> HIDE DEF course, fire
    <2> QED
      BY <1>2, <2>2, <2>3, <2>4, <2>9, CalmSafe
  <1> QED
    BY <1>3, <1>4

-----------------------------------------------------------------------------
(* The crystal hunter *)

\* Forms that may follow one another in a slot without disturbing the sides.
Turns(a, b) ==
    \/ b = a
    \/ b \notin Special /\ a \notin {"carry", "busy"}
    \/ a \in Freezing /\ b \in Freezing
    \/ a \in {"lock", "locked"} /\ b \in Locking
    \/ a \in CursorForms \ {"busy"} /\ b \in {"wait", "back"}

\* A shot that goes from one form to the next.
LEMMA TurnedCalm ==
    ASSUME NEW F, NEW g, Sound(g, F), NEW s \in Slots, g.shots[s].form \notin {"none", "fired"},
           NEW form \in F \ {"none", "fired", "fade"}, Turns(g.shots[s].form, form), NEW c \in Int
    PROVE  Into(g, s, form) \in Calm(g, F) /\ Wound(g, s, form, c) \in Calm(g, F)
  <1> DEFINE p == g.shots[s]
             q == [p EXCEPT !.form = form]
             r == [q EXCEPT !.clock = c]
  <1>1. g \in Arenas(F) /\ p \in ShotRecords(F) /\ p.age # "new" /\ g.shots \in [Slots -> ShotRecords(F)]
    BY ShotFields DEF Sound, Shaped
  <1>2. q \in Kids(F) /\ q.form = form /\ q.quad = p.quad /\ q.target = p.target /\ q.kind = p.kind
    BY <1>1 DEF Kids, ShotRecords
  <1>3. r \in Kids(F) /\ r.form = form /\ r.quad = p.quad /\ r.target = p.target /\ r.kind = p.kind
    <2> HIDE DEF q
    <2> QED
      BY <1>2 DEF Kids, ShotRecords
  <1>4. Mild(p, q) /\ Mild(p, r)
    <2> HIDE DEF p, q, r
    <2> QED
      BY <1>2, <1>3 DEF Turns, Mild, p
  <1>5. Into(g, s, form) = [g EXCEPT !.shots[s] = q]
    BY DEF Into
  <1>6. Wound(g, s, form, c) = [g EXCEPT !.shots[s] = r]
    <2> HIDE DEF q
    <2> QED
      BY <1>1, <1>5, ZenonT(60) DEF Wound, Arenas
  <1> HIDE DEF q, r
  <1> QED
    BY <1>2, <1>3, <1>4, <1>5, <1>6, MildCalm

CrystalForms == {"none", "fired", "crystal", "bounced", "icing", "ice", "shatter", "time"}

\* The forms of the crystal hunter.
LEMMA CrystalPlain ==
    /\ "none" \in CrystalForms /\ {"carry", "busy"} \cap CrystalForms = {}
    /\ {"crystal", "bounced", "shatter", "time"} \subseteq Plain(CrystalForms)
    /\ ({"bee", "eddy", "flame"} \cup CursorForms \cup Carrying) \cap CrystalForms = {}
  BY DEF CrystalForms, Plain, Special, Freezing, Carrying, CursorForms, Locking

\* The crystal hunter's tick, in which no enemy is frozen.
LEMMA CrystalCalm ==
    ASSUME NEW g, Sound(g, CrystalForms), NEW s \in Slots, g.shots[s].form # "none"
    PROVE  CrystalTick(g, s) \subseteq Calm(g, CrystalForms)
  <1> DEFINE F == CrystalForms
             p == g.shots[s]
  <1>1. Sound(g, F) /\ g \in Arenas(F) /\ p.form \in F /\ p.form \notin {"none", "carry", "busy"}
    BY FormOf, CrystalPlain DEF Sound
  <1>2. Retired(g, s) \in Calm(g, F) /\ g \in Calm(g, F)
    BY <1>1, CrystalPlain, RetiredCalm, CalmItself
  <1>3. CASE Fresh(g, s)
    <2>1. p.form = "fired"
      BY <1>1, <1>3 DEF Sound, Shaped, Fresh
    <2>2. <<>> \in Seq(Plain(F))
      BY ShortSequences, CrystalPlain
    <2>3. \A refused : \A f \in {"time", "crystal"} : Launch(g, s, refused, f, <<>>) \subseteq Calm(g, F)
      BY <1>1, <1>3, <2>2, CrystalPlain, LaunchCalm
    <2>4. \E refused : \E f \in {"time", "crystal"} :
             CrystalTick(g, s) \in {Launch(g, s, refused, f, <<>>), {Retired(g, s)}}
      <3> DEFINE others == Others(g, s)
                 flyers == {i \in others : Is(g, i, {"crystal", "bounced"})}
                 refused == \/ flyers # {}
                            \/ \E i \in others : g.shots[i].charged
                            \/ ~p.charged /\ Cardinality(others \ flyers) >= 3
                 f == IF p.charged THEN "time" ELSE "crystal"
      <3>1. CrystalTick(g, s) \in {Launch(g, s, refused, f, <<>>), {Retired(g, s)}}
        BY <1>3, <2>1 DEF CrystalTick
      <3>2. f \in {"time", "crystal"}
        OBVIOUS
      <3> HIDE DEF refused, f
      <3> QED
        BY <3>1, <3>2
    <2> QED
      BY <1>2, <2>3, <2>4
  <1>4. CASE ~Fresh(g, s)
    <2>1. p.form # "fired"
      BY <1>1, <1>4 DEF Sound, Shaped, Fresh
    <2>2. p.form = "crystal" => Into(g, s, "bounced") \in Calm(g, F)
      BY <1>1, CrystalPlain, IntoCalm
    <2>3. p.form = "ice" => Into(g, s, "shatter") \in Calm(g, F)
      BY <1>1, CrystalPlain, IntoCalm
    <2>4. p.form = "icing" => Into(g, s, "ice") \in Calm(g, F)
      <3>1. "ice" \in F \ {"none", "fired", "fade"} /\ Turns("icing", "ice") /\ 0 \in Int
        BY DEF CrystalForms, Turns, Freezing
      <3> QED
        BY <1>1, <3>1, TurnedCalm
    <2>5. p.form \in {"crystal", "bounced", "icing", "ice", "shatter", "time"}
      BY <1>1, <2>1 DEF CrystalForms
    <2>6. CrystalTick(g, s) \subseteq {g, Retired(g, s)}
             \cup (IF p.form = "crystal" THEN {Into(g, s, "bounced")} ELSE {})
             \cup (IF p.form = "ice" THEN {Into(g, s, "shatter")} ELSE {})
             \cup (IF p.form = "icing" THEN {Into(g, s, "ice")} ELSE {})
      BY <1>4, <2>5 DEF CrystalTick
    <2> QED
      BY <1>2, <2>2, <2>3, <2>4, <2>6
  <1> QED
    BY <1>3, <1>4

-----------------------------------------------------------------------------
(* An enemy nobody holds, and one who gets hold of it *)

\* The holders of an enemy, counted.
LEMMA HoldersFinite ==
    ASSUME NEW g, NEW e
    PROVE  /\ IsFiniteSet({s \in Slots : Holds(g, s, e)}) /\ IsFiniteSet({x \in Effects : g.effects[x].target = e})
           /\ OwnHolders(g, e) = Cardinality({s \in Slots : Holds(g, s, e)})
                                 + Cardinality({x \in Effects : g.effects[x].target = e})
           /\ Cardinality({s \in Slots : Holds(g, s, e)}) \in Nat
           /\ Cardinality({x \in Effects : g.effects[x].target = e}) \in Nat
  <1>1. IsFiniteSet(Slots) /\ IsFiniteSet(Effects)
    BY SlotsFinite, PoolAssumption, FS_Interval DEF Effects
  <1>2. IsFiniteSet({s \in Slots : Holds(g, s, e)}) /\ IsFiniteSet({x \in Effects : g.effects[x].target = e})
    BY <1>1, FS_Subset
  <1>3. OwnHolders(g, e) = Cardinality({s \in Slots : Holds(g, s, e)})
                           + Cardinality({x \in Effects : g.effects[x].target = e})
    BY DEF OwnHolders, Holds
  <1> QED
    BY <1>2, <1>3, FS_CardinalityType

\* An enemy nobody holds: no shot, no victim's effect, not the partner.
LEMMA NotHeld ==
    ASSUME NEW g, NEW e, ~Held(g, e)
    PROVE  /\ \A s \in Slots : ~Holds(g, s, e)
           /\ \A x \in Effects : g.effects[x].target # e
           /\ e \notin g.partner
  <1> DEFINE A == {s \in Slots : Holds(g, s, e)}
             B == {x \in Effects : g.effects[x].target = e}
  <1>1. /\ IsFiniteSet(A) /\ IsFiniteSet(B) /\ Cardinality(A) \in Nat /\ Cardinality(B) \in Nat
        /\ OwnHolders(g, e) = Cardinality(A) + Cardinality(B)
    BY HoldersFinite
  <1>2. ~(OwnHolders(g, e) > 0) /\ e \notin g.partner
    BY DEF Held
  <1>3. A = {} /\ B = {}
    <2> HIDE DEF A, B
    <2> QED
      BY <1>1, <1>2, FS_EmptySet
  <1> QED
    BY <1>2, <1>3

\* A record in slot s that takes hold of enemy e, or aims at nothing that
\* another one aims at.
LEMMA HoldTaken ==
    ASSUME NEW F, NEW g \in Arenas(F), HeldOnce(g), NEW s \in Slots, NEW e \in Foes, ~Held(g, e),
           NEW h, Beside(h, g), \A i \in Slots \ {s} : h.shots[i] = g.shots[i],
           h.shots[s].target = e, h.shots[s].form \notin Locking
    PROVE  HeldOnce(h)
  <1>1. /\ \A i \in Slots : ~Holds(g, i, e)
        /\ \A x \in Effects : g.effects[x].target # e
        /\ e \notin g.partner
    BY NotHeld
  <1>2. \A i \in Slots : \A d : Holds(h, i, d) => (i = s /\ d = e) \/ (i # s /\ Holds(g, i, d))
    BY DEF Holds, Is
  <1>3. \A i \in Slots : Is(h, i, Locking) => i # s /\ Is(g, i, Locking) /\ h.shots[i] = g.shots[i]
    BY DEF Is
  <1>4. h.effects = g.effects /\ h.partner = g.partner
    BY DEF Beside
  <1>5. \A d \in Foes : \A i, t \in Slots : Holds(h, i, d) /\ Holds(h, t, d) => i = t
    BY <1>1, <1>2 DEF HeldOnce
  <1>6. \A d \in Foes : \A x, y \in Effects : h.effects[x].target = d /\ h.effects[y].target = d => x = y
    BY <1>4 DEF HeldOnce
  <1>7. \A d \in Foes : \A i \in Slots, x \in Effects : ~(Holds(h, i, d) /\ h.effects[x].target = d)
    BY <1>1, <1>2, <1>4 DEF HeldOnce
  <1>8. \A d \in h.partner : \A i \in Slots : ~Holds(h, i, d)
    BY <1>1, <1>2, <1>4 DEF HeldOnce
  <1>9. \A d \in h.partner : \A x \in Effects : h.effects[x].target # d
    BY <1>4 DEF HeldOnce
  <1>10. \A i, t \in Slots : Is(h, i, Locking) /\ Is(h, t, Locking) /\ h.shots[i].target = h.shots[t].target => i = t
    BY <1>3 DEF HeldOnce
  <1> QED
    BY <1>5, <1>6, <1>7, <1>8, <1>9, <1>10 DEF HeldOnce

-----------------------------------------------------------------------------
(* The parasitic bomb *)

\* A slot whose record changes while it is owned.
WithShot(g, s, r) == [g EXCEPT !.shots[s] = r]
\* One record changes, and the arena stays sound.
LEMMA RecordSound ==
    ASSUME NEW F, NEW g, Sound(g, F), NEW s \in Slots, g.shots[s].form # "none",
           NEW r \in Kids(F), NEW h, h = WithShot(g, s, r)
    PROVE  /\ h \in Arenas(F) /\ Sound(h, F) /\ Beside(h, g)
           /\ h.shots[s] = r /\ \A i \in Slots \ {s} : h.shots[i] = g.shots[i]
  <1>1. g \in Arenas(F) /\ r \in ShotRecords(F) /\ r.form \notin {"none", "fired"} /\ r.age # "new"
    BY DEF Sound, Kids
  <1>2. h \in Arenas(F)
    BY <1>1 DEF Arenas, WithShot
  <1>3. h.shots = [g.shots EXCEPT ![s] = r] /\ h.actors = g.actors /\ h.count = g.count /\ Beside(h, g)
    BY <1>1 DEF Arenas, Beside, WithShot
  <1>4. Shaped(h) /\ Owning(h) /\ Recorded(h) /\ Counted(h)
    BY <1>1, <1>3 DEF Sound, Shaped, Owning, Recorded, Counted, Arenas
  <1>5. h.shots[s] = r /\ \A i \in Slots \ {s} : h.shots[i] = g.shots[i]
    BY <1>1, <1>3 DEF Arenas
  <1> QED
    BY <1>2, <1>3, <1>4, <1>5 DEF Sound

\* The turn passes among cursors without touching a shot.
LEMMA TokenCalm ==
    ASSUME NEW F, NEW g, Sound(g, F), NEW n \in Int
    PROVE  [g EXCEPT !.token = n] \in Calm(g, F)
  <1> DEFINE h == [g EXCEPT !.token = n]
  <1>1. /\ h \in Arenas(F) /\ h.shots = g.shots /\ h.actors = g.actors /\ h.count = g.count
        /\ Beside(h, g)
    BY DEF Sound, Arenas, Beside
  <1> HIDE DEF h
  <1>2. Sound(h, F) /\ \A i \in Slots : Mild(g.shots[i], h.shots[i])
    BY <1>1 DEF Sound, Shaped, Owning, Recorded, Counted, Mild
  <1>3. h \in Calm(g, F)
    BY <1>1, <1>2 DEF Calm
  <1> QED
    BY <1>3 DEF h

\* The record that names an enemy.
LEMMA PointedSound ==
    ASSUME NEW F, NEW g, Sound(g, F), NEW s \in Slots, g.shots[s].form \notin {"none", "fired"},
           NEW form \in F \ {"none", "fired", "fade"}, NEW e \in Foes, NEW c \in Int,
           NEW h \in {Pointed(g, s, e, form), Wound(Pointed(g, s, e, form), s, form, c)}
    PROVE  /\ h \in Arenas(F) /\ Sound(h, F) /\ Beside(h, g)
           /\ h.shots[s].form = form /\ h.shots[s].target = e /\ h.shots[s].quad = g.shots[s].quad
           /\ \A i \in Slots \ {s} : h.shots[i] = g.shots[i]
  <1> DEFINE p == g.shots[s]
             k == g.enemies[e]
             r == [p EXCEPT !.form = form, !.target = e, !.kind = k, !.clock = 0]
             q == [r EXCEPT !.clock = c]
             o == Pointed(g, s, e, form)
  <1>1. /\ g \in Arenas(F) /\ p \in ShotRecords(F) /\ p.age # "new" /\ g.shots \in [Slots -> ShotRecords(F)]
        /\ k \in AnyKind /\ e \in Int
    <2>1. k \in Kinds \cup {NoFoe}
      BY DEF Sound, Arenas
    <2> QED
      BY <2>1, ShotFields DEF Sound, Shaped, AnyKind, NoFoe, Foes
  <1> HIDE DEF k
  <1>2. r \in Kids(F) /\ r.form = form /\ r.target = e /\ r.quad = p.quad
    <2> DEFINE a == [p EXCEPT !.form = form]
               b == [a EXCEPT !.target = e]
               d == [b EXCEPT !.kind = k]
    <2>1. a \in Kids(F) /\ a.form = form /\ a.quad = p.quad
      BY <1>1 DEF Kids, ShotRecords
    <2> HIDE DEF a
    <2>2. b \in Kids(F) /\ b.form = form /\ b.target = e /\ b.quad = p.quad
      BY <1>1, <2>1 DEF Kids, ShotRecords
    <2> HIDE DEF b
    <2>3. d \in Kids(F) /\ d.form = form /\ d.target = e /\ d.quad = p.quad
      BY <1>1, <2>2 DEF Kids, ShotRecords
    <2>4. r = [d EXCEPT !.clock = 0]
      BY SMTT(40) DEF a, b
    <2> HIDE DEF d, r
    <2> QED
      BY <2>3, <2>4 DEF Kids, ShotRecords
  <1>3. o = [g EXCEPT !.shots[s] = r]
    <2> DEFINE sh == [g.shots EXCEPT ![s].form = form, ![s].target = e, ![s].kind = k, ![s].clock = 0]
    <2>1. o = [g EXCEPT !.shots = sh]
      BY <1>1 DEF Pointed, Arenas, k
    <2>2. sh = [g.shots EXCEPT ![s] = r]
      BY <1>1 DEF ShotRecords
    <2> QED
      BY <2>1, <2>2, ZenonT(60)
  <1>4. q \in Kids(F) /\ q.form = form /\ q.target = e /\ q.quad = p.quad
    <2> HIDE DEF r
    <2> QED
      BY <1>2 DEF Kids, ShotRecords
  <1>5. Wound(o, s, form, c) = [g EXCEPT !.shots[s] = q]
    <2>1. r = [r EXCEPT !.form = form]
      <3> HIDE DEF r
      <3> QED
        BY <1>2 DEF Kids, ShotRecords
    <2> HIDE DEF r, o
    <2>2. o.shots[s] = r
      BY <1>1, <1>3 DEF Arenas
    <2>3. Into(o, s, form) = o
      <3>1. o \in Arenas(F)
        BY <1>1, <1>2, <1>3 DEF Arenas, Kids
      <3> QED
        BY <2>1, <2>2, <3>1 DEF Into, Arenas
    <2> QED
      BY <1>1, <1>3, <2>3 DEF Wound, Arenas
  <1> HIDE DEF r, q
  <1>6. \E z \in {r, q} : h = [g EXCEPT !.shots[s] = z]
    BY <1>3, <1>5
  <1>7. PICK z \in {r, q} : h = [g EXCEPT !.shots[s] = z]
    BY <1>6
  <1>8. z \in Kids(F) /\ z.form = form /\ z.target = e /\ z.quad = p.quad
    BY <1>2, <1>4
  <1>9. /\ h \in Arenas(F) /\ Sound(h, F) /\ Beside(h, g)
        /\ h.shots[s] = z /\ \A i \in Slots \ {s} : h.shots[i] = g.shots[i]
    <2>1. g.shots[s].form # "none" /\ z \in Kids(F) /\ h = WithShot(g, s, z)
      BY <1>7, <1>8 DEF WithShot
    <2> HIDE DEF p
    <2> QED
      BY <2>1, RecordSound
  <1> QED
    BY <1>8, <1>9

\* Records that are neither cursors nor bees leave the bees as they are.
LEMMA BeesSame ==
    ASSUME NEW g, BeesKept(g), NEW h,
           \A i \in Slots : \/ h.shots[i] = g.shots[i]
                            \/ /\ h.shots[i].form \notin CursorForms \cup {"bee"}
                               /\ g.shots[i].form # "busy"
    PROVE  BeesKept(h)
  <1>1. \A i \in Slots : i \in CursorsOf(h) => i \in CursorsOf(g) /\ h.shots[i] = g.shots[i]
    BY DEF CursorsOf, Is
  <1>2. \A i \in Slots : Is(h, i, {"bee"}) => Is(g, i, {"bee"}) /\ h.shots[i] = g.shots[i]
    BY DEF Is
  <1>3. \A i \in Slots : Is(g, i, {"busy"}) => Is(h, i, {"busy"}) /\ h.shots[i] = g.shots[i]
    BY DEF Is, CursorForms, Locking
  <1>4. \A i : i \in CursorsOf(h) => i \in Slots
    BY DEF CursorsOf
  <1> QED
    BY <1>1, <1>2, <1>3, <1>4 DEF BeesKept

BombForms == {"none", "fired", "bomb", "bee", "payload", "wait", "back", "lock", "locked", "busy"}

\* The forms of the parasitic bomb.
LEMMA BombPlain ==
    /\ "none" \in BombForms /\ "bomb" \in Plain(BombForms)
    /\ {"carry", "eddy", "fade"} \cap BombForms = {}
    /\ {"payload", "bee"} \cup CursorForms \subseteq BombForms \ {"none", "fired", "fade"}
  BY DEF BombForms, Plain, Special, Freezing, Carrying, CursorForms, Locking

\* A crystal or a bomb that touches an enemy takes hold of one nobody holds.
LEMMA ContactSafe ==
    ASSUME NEW F \in {CrystalForms, BombForms}, NEW g \in Safe(F), NEW s \in Slots, NEW e \in Foes,
           Contact(g, e, s),
           NEW h \in IF F = CrystalForms THEN {CrystalContact(g, e, s)} ELSE {ParasiticContact(g, e, s)}
    PROVE  h \in Safe(F)
  <1> DEFINE form == IF F = CrystalForms THEN "icing" ELSE "payload"
  <1>1. Sound(g, F) /\ Sides(g) /\ g \in Arenas(F) /\ g.shots[s].form \in {"crystal", "bomb"} /\ ~Held(g, e)
    BY DEF Safe, Contact, Is
  <1>2. form \in F \ {"none", "fired", "fade"} /\ "eddy" \notin F /\ "carry" \notin F
    BY BombPlain, CrystalPlain DEF CrystalForms
  <1>3. PayloadLife \in Int
    BY HoldsAssumption
  <1>4. h \in {Pointed(g, s, e, form), Wound(Pointed(g, s, e, form), s, form, PayloadLife)}
    BY DEF CrystalContact, ParasiticContact
  <1>5. form \notin Locking \cup {"bee"} \cup CursorForms
    BY DEF Locking, CursorForms
  <1> HIDE DEF form
  <1>6. /\ h \in Arenas(F) /\ Sound(h, F) /\ Beside(h, g)
        /\ h.shots[s].form = form /\ h.shots[s].target = e
        /\ \A i \in Slots \ {s} : h.shots[i] = g.shots[i]
    BY <1>1, <1>2, <1>3, <1>4, PointedSound
  <1>7. HeldOnce(h)
    BY <1>1, <1>5, <1>6, HoldTaken DEF Sides
  <1>8. BeesKept(h)
    BY <1>1, <1>5, <1>6, BeesSame DEF Sides
  <1>9. EddiesKept(h) /\ ItemKept(h)
    BY <1>1, <1>2, <1>6, NoEddies, NoCarries DEF Sides, Beside
  <1> QED
    BY <1>6, <1>7, <1>8, <1>9 DEF Safe, Sides

\* A calm change keeps who holds whom.
LEMMA CalmHeld ==
    ASSUME NEW F, NEW g, HeldOnce(g), NEW h \in Calm(g, F)
    PROVE  HeldOnce(h)
  <1>1. Beside(h, g) /\ \A i \in Slots : Mild(g.shots[i], h.shots[i])
    BY DEF Calm
  <1>2. \A i \in Slots : \A e : Holds(h, i, e) => Holds(g, i, e)
    BY <1>1 DEF Mild, Holds, Is, Special, Freezing, Carrying, CursorForms, Locking
  <1>3. \A i \in Slots : Is(h, i, Locking) => Is(g, i, Locking) /\ h.shots[i].target = g.shots[i].target
    BY <1>1 DEF Mild, Is, Special, Freezing, Carrying, CursorForms, Locking
  <1>4. h.effects = g.effects /\ h.partner = g.partner
    BY <1>1 DEF Beside
  <1> QED
    BY <1>2, <1>3, <1>4 DEF HeldOnce

\* One child spawned.
LEMMA SpawnedOne ==
    ASSUME NEW g, NEW r
    PROVE  Spawned(g, <<r>>) = SpawnChild(g, r)
  <1> DEFINE P == [m \in 0 .. 1 |-> IF m = 0 THEN {g} ELSE {SpawnChild(g, r)}]
             one == <<r>>
  <1>1. Len(one) = 1 /\ one[1] = r /\ P[0] = {g} /\ P[1] = {SpawnChild(g, r)}
    OBVIOUS
  <1> HIDE DEF P, one
  <1>2. \A i \in 1 .. 1 : \A h \in P[i - 1] : SpawnChild(h, one[i]) \in P[i]
    BY <1>1
  <1>3. Spawned(g, one) \in P[1]
    BY <1>1, <1>2, SpawnedRuns
  <1> QED
    BY <1>1, <1>3 DEF one

\* A cursor that locks on to an enemy no other one is locked on to.
LEMMA LockTaken ==
    ASSUME NEW F, NEW g, HeldOnce(g), NEW s \in Slots, NEW e \in Foes, ~Reserved(g, s, e),
           NEW h, Beside(h, g), \A i \in Slots \ {s} : h.shots[i] = g.shots[i],
           h.shots[s].target = e, h.shots[s].form = "lock"
    PROVE  HeldOnce(h)
  <1>1. \A i \in Slots \ {s} : Is(g, i, Locking) => g.shots[i].target # e
    BY DEF Reserved, CursorsOf, CursorForms, Is
  <1>2. \A i \in Slots : \A d : Holds(h, i, d) => i # s /\ Holds(g, i, d)
    BY DEF Holds, Is, Freezing, Carrying
  <1>3. \A i \in Slots \ {s} : Is(h, i, Locking) => Is(g, i, Locking) /\ h.shots[i] = g.shots[i]
    BY DEF Is
  <1>4. h.effects = g.effects /\ h.partner = g.partner
    BY DEF Beside
  <1>5. ASSUME NEW i \in Slots, NEW t \in Slots, Is(h, i, Locking), Is(h, t, Locking),
               h.shots[i].target = h.shots[t].target
        PROVE  i = t
    <2>1. i # s /\ t # s => i = t
      BY <1>3, <1>5 DEF HeldOnce
    <2>2. i = s <=> t = s
      BY <1>1, <1>3, <1>5
    <2> QED
      BY <2>1, <2>2
  <1> QED
    BY <1>2, <1>4, <1>5 DEF HeldOnce

\* The cursors of g keep their places, and no bee is lost or gained.
LEMMA CursorMoves ==
    ASSUME NEW g, BeesKept(g), NEW s \in Slots, NEW h, \A i \in Slots \ {s} : h.shots[i] = g.shots[i],
           g.shots[s].form \in CursorForms, h.shots[s].form \in CursorForms,
           h.shots[s].quad = g.shots[s].quad,
           \/ g.shots[s].form # "busy"
           \/ \A b \in Slots : Is(g, b, {"bee"}) => g.shots[b].quad # g.shots[s].quad
    PROVE  BeesKept(h)
  <1>1. \A i \in Slots : i \in CursorsOf(h) => i \in CursorsOf(g) /\ h.shots[i].quad = g.shots[i].quad
    BY DEF CursorsOf, Is
  <1>2. "bee" \notin CursorForms
    BY DEF CursorForms, Locking
  <1>3. \A i \in Slots : Is(h, i, {"bee"}) => i # s /\ Is(g, i, {"bee"}) /\ h.shots[i] = g.shots[i]
    BY <1>2 DEF Is
  <1>4. \A i \in Slots : Is(g, i, {"busy"}) /\ i # s => Is(h, i, {"busy"}) /\ h.shots[i] = g.shots[i]
    BY DEF Is
  <1>5. \A i : i \in CursorsOf(h) => i \in Slots
    BY DEF CursorsOf
  <1>6. \A b \in Slots : Is(h, b, {"bee"}) =>
           \E c \in Slots : Is(h, c, {"busy"}) /\ h.shots[c].quad = h.shots[b].quad
    <2> SUFFICES ASSUME NEW b \in Slots, Is(h, b, {"bee"})
                 PROVE  \E c \in Slots : Is(h, c, {"busy"}) /\ h.shots[c].quad = h.shots[b].quad
      OBVIOUS
    <2>1. PICK c \in Slots : Is(g, c, {"busy"}) /\ g.shots[c].quad = g.shots[b].quad
      BY <1>3 DEF BeesKept
    <2>2. c # s
      BY <1>3, <2>1 DEF Is
    <2> QED
      BY <1>3, <1>4, <2>1, <2>2
  <1>7. \A a, b \in Slots : Is(h, a, {"bee"}) /\ Is(h, b, {"bee"}) /\ h.shots[a].quad = h.shots[b].quad => a = b
    BY <1>3 DEF BeesKept
  <1>8. \A c, d \in CursorsOf(h) : h.shots[c].quad = h.shots[d].quad => c = d
    BY <1>1, <1>5 DEF BeesKept
  <1> QED
    BY <1>6, <1>7, <1>8 DEF BeesKept

\* A busy cursor's one bee.
LEMMA BeeLeaves ==
    ASSUME NEW g \in Safe(BombForms), NEW s \in Slots, g.shots[s].form = "locked",
           NEW bee \in Kids(BombForms), bee.form = "bee", bee.quad = g.shots[s].quad
    PROVE  Into(Spawned(g, <<bee>>), s, "busy") \in Safe(BombForms)
  <1> DEFINE F == BombForms
             x == Spawned(g, <<bee>>)
             y == Into(x, s, "busy")
             q == g.shots[s].quad
  <1>1. Sound(g, F) /\ Sides(g) /\ g \in Arenas(F)
    BY DEF Safe
  <1>2. x \in Grown(g, F, {bee}) /\ \E a \in Slots : x.shots \in {g.shots, [g.shots EXCEPT ![a] = bee]}
    <2>1. x = SpawnChild(g, bee)
      BY SpawnedOne
    <2> HIDE DEF x
    <2> QED
      BY <1>1, <2>1, SpawnChildGrows
  <1>3. PICK a \in Slots : x.shots \in {g.shots, [g.shots EXCEPT ![a] = bee]}
    BY <1>2
  <1> HIDE DEF x
  <1>4. Sound(x, F) /\ x \in Arenas(F) /\ Beside(x, g) /\ x.shots[s] = g.shots[s]
        /\ \A i \in Slots : x.shots[i] = g.shots[i] \/ (g.shots[i].form = "none" /\ x.shots[i] = bee)
    BY <1>2 DEF Grown, Sound
  <1>5. y \in Calm(x, F)
    <2>1. Turns("locked", "busy") /\ "busy" \in F \ {"none", "fired", "fade"} /\ 0 \in Int
      BY BombPlain DEF Turns, CursorForms, Locking
    <2> QED
      BY <1>4, <2>1, TurnedCalm
  <1>6. y.shots[s].form = "busy" /\ y.shots[s].quad = q /\ \A i \in Slots \ {s} : y.shots[i] = x.shots[i]
    <2>1. x.shots[s] \in ShotRecords(F)
      BY <1>4, ShotFields
    <2> QED
      BY <1>4, <2>1 DEF Into, Arenas, ShotRecords
  <1> HIDE DEF y
  <1>7. HeldOnce(y)
    <2>1. "bee" \notin Freezing \cup Carrying \cup Locking
      BY DEF Freezing, Carrying, Locking
    <2>2. HeldOnce(x)
      BY <1>1, <1>4, <2>1, HeldSame DEF Sides
    <2> QED
      BY <1>5, <2>2, CalmHeld
  <1>8. \A b \in Slots : Is(g, b, {"bee"}) => g.shots[b].quad # q
    <2> SUFFICES ASSUME NEW b \in Slots, Is(g, b, {"bee"}), g.shots[b].quad = q PROVE FALSE
      OBVIOUS
    <2>1. BeesKept(g)
      BY <1>1 DEF Sides
    <2>2. PICK c \in Slots : Is(g, c, {"busy"}) /\ g.shots[c].quad = q
      BY <2>1 DEF BeesKept
    <2>3. c \in CursorsOf(g) /\ s \in CursorsOf(g)
      BY <2>2 DEF CursorsOf, CursorForms, Locking, Is
    <2>4. c = s
      BY <2>1, <2>2, <2>3 DEF BeesKept
    <2> QED
      BY <2>2, <2>4 DEF Is
  <1>9. BeesKept(y)
    <2>1. \A i \in Slots : i \in CursorsOf(y) => i \in CursorsOf(g) /\ y.shots[i].quad = g.shots[i].quad
      BY <1>4, <1>6 DEF CursorsOf, Is, CursorForms, Locking
    <2>2. \A i \in Slots : Is(y, i, {"bee"}) =>
             \/ Is(g, i, {"bee"}) /\ y.shots[i].quad = g.shots[i].quad
             \/ i = a /\ y.shots[i].quad = q
      <3>1. \A i \in Slots : x.shots[i] = g.shots[i] \/ (i = a /\ x.shots[i] = bee)
        BY <1>1, <1>3 DEF Arenas
      <3> QED
        BY <1>6, <3>1 DEF Is
    <2>3. \A i \in Slots : Is(g, i, {"busy"}) => Is(y, i, {"busy"}) /\ y.shots[i].quad = g.shots[i].quad
      BY <1>4, <1>6 DEF Is
    <2>4. \A i : i \in CursorsOf(y) => i \in Slots
      BY DEF CursorsOf
    <2>5. BeesKept(g) /\ Is(y, s, {"busy"})
      BY <1>1, <1>6 DEF Sides, Is
    <2>6. \A b \in Slots : Is(y, b, {"bee"}) =>
             \E c \in Slots : Is(y, c, {"busy"}) /\ y.shots[c].quad = y.shots[b].quad
      BY <1>6, <2>2, <2>3, <2>5 DEF BeesKept
    <2>7. \A b, c \in Slots : Is(y, b, {"bee"}) /\ Is(y, c, {"bee"}) /\ y.shots[b].quad = y.shots[c].quad => b = c
      BY <1>8, <2>2, <2>5 DEF BeesKept
    <2>8. \A c, d \in CursorsOf(y) : y.shots[c].quad = y.shots[d].quad => c = d
      BY <2>1, <2>4, <2>5 DEF BeesKept
    <2> QED
      BY <2>6, <2>7, <2>8 DEF BeesKept
  <1>10. EddiesKept(y) /\ ItemKept(y)
    <2>1. y \in Arenas(F) /\ y.item = g.item /\ ItemKept(g)
      BY <1>1, <1>4, <1>5 DEF Calm, Beside, Sides
    <2> QED
      BY <1>1, <2>1, BombPlain, NoEddies, NoCarries
  <1> QED
    BY <1>5, <1>7, <1>9, <1>10 DEF Safe, Sides, Calm, y, x

\* A cursor that lets go of its target.
Unlocked(g, s) == [Wound(g, s, "back", 0) EXCEPT !.shots[s].target = 0, !.shots[s].kind = "none"]
\* A cursor that lets go is safe once its bee is gone.
LEMMA UnlockedSafe ==
    ASSUME NEW g \in Safe(BombForms), NEW s \in Slots, g.shots[s].form \in CursorForms,
           \/ g.shots[s].form # "busy"
           \/ \A b \in Slots : Is(g, b, {"bee"}) => g.shots[b].quad # g.shots[s].quad
    PROVE  Unlocked(g, s) \in Safe(BombForms)
  <1> DEFINE F == BombForms
             p == g.shots[s]
             a == [p EXCEPT !.form = "back"]
             b == [a EXCEPT !.clock = 0]
             c == [b EXCEPT !.target = 0]
             r == [c EXCEPT !.kind = "none"]
             h == Unlocked(g, s)
  <1>1. /\ Sound(g, F) /\ Sides(g) /\ g \in Arenas(F) /\ p \in ShotRecords(F) /\ p.age # "new"
        /\ p.form \notin {"none", "fired"} /\ g.shots \in [Slots -> ShotRecords(F)]
    BY ShotFields DEF Safe, Sound, Shaped, CursorForms, Locking
  <1>2. r \in Kids(F) /\ r.form = "back" /\ r.quad = p.quad
    <2>1. a \in Kids(F) /\ a.form = "back" /\ a.quad = p.quad
      BY <1>1, BombPlain DEF Kids, ShotRecords, CursorForms
    <2> HIDE DEF a
    <2>2. b \in Kids(F) /\ b.form = "back" /\ b.quad = p.quad
      BY <2>1 DEF Kids, ShotRecords
    <2> HIDE DEF b
    <2>3. c \in Kids(F) /\ c.form = "back" /\ c.quad = p.quad
      BY <2>2 DEF Kids, ShotRecords
    <2> HIDE DEF c
    <2>4. "none" \in AnyKind
      BY DEF AnyKind
    <2> QED
      BY <2>3, <2>4 DEF Kids, ShotRecords
  <1>3. h = WithShot(g, s, r)
    <2> DEFINE sh == [[g.shots EXCEPT ![s] = b] EXCEPT ![s].target = 0, ![s].kind = "none"]
    <2>1. Wound(g, s, "back", 0) = [g EXCEPT !.shots[s] = b]
      <3> HIDE DEF a
      <3>1. Into(g, s, "back") = [g EXCEPT !.shots[s] = a]
        BY DEF Into, a
      <3> QED
        BY <1>1, <3>1 DEF Wound, Arenas
    <2> HIDE DEF b
    <2>2. h = [g EXCEPT !.shots = sh]
      BY <1>1, <2>1 DEF Unlocked, Arenas
    <2>3. sh = [g.shots EXCEPT ![s] = r]
      BY <1>1
    <2> HIDE DEF sh, r
    <2> QED
      BY <1>1, <2>2, <2>3 DEF WithShot
  <1> HIDE DEF r, h
  <1>4. /\ h \in Arenas(F) /\ Sound(h, F) /\ Beside(h, g)
        /\ h.shots[s] = r /\ \A i \in Slots \ {s} : h.shots[i] = g.shots[i]
    BY <1>1, <1>2, <1>3, RecordSound
  <1>5. HeldOnce(h)
    <2>1. "back" \notin Freezing \cup Carrying \cup Locking
      BY DEF Freezing, Carrying, Locking
    <2> QED
      BY <1>1, <1>2, <1>4, <2>1, HeldSame DEF Sides
  <1>6. BeesKept(h)
    <2>1. "back" \in CursorForms
      BY DEF CursorForms
    <2> QED
      BY <1>1, <1>2, <1>4, <2>1, CursorMoves DEF Sides
  <1>7. EddiesKept(h) /\ ItemKept(h)
    BY <1>1, <1>4, BombPlain, NoEddies, NoCarries DEF Sides, Beside
  <1> QED
    BY <1>4, <1>5, <1>6, <1>7 DEF Safe, Sides, h

\* A cursor locks on to an enemy no other cursor has reserved (ParasiticSearch).
LEMMA LockSafe ==
    ASSUME NEW g \in Safe(BombForms), NEW s \in Slots, g.shots[s].form = "wait",
           NEW seen, NEW e \in ParasiticSearch(g, s, seen)
    PROVE  Wound(Pointed(g, s, e, "lock"), s, "lock", 1) \in Safe(BombForms)
  <1> DEFINE F == BombForms
             h == Wound(Pointed(g, s, e, "lock"), s, "lock", 1)
  <1>1. Sound(g, F) /\ Sides(g) /\ g \in Arenas(F) /\ e \in Foes /\ ~Reserved(g, s, e)
    BY DEF Safe, ParasiticSearch
  <1>2. "lock" \in F \ {"none", "fired", "fade"} /\ {"lock", "wait"} \subseteq CursorForms
    BY BombPlain DEF CursorForms, Locking
  <1>3. /\ h \in Arenas(F) /\ Sound(h, F) /\ Beside(h, g)
        /\ h.shots[s].form = "lock" /\ h.shots[s].target = e /\ h.shots[s].quad = g.shots[s].quad
        /\ \A i \in Slots \ {s} : h.shots[i] = g.shots[i]
    BY <1>1, <1>2, PointedSound
  <1> HIDE DEF h
  <1>4. HeldOnce(h)
    BY <1>1, <1>3, LockTaken DEF Sides
  <1>5. BeesKept(h)
    BY <1>1, <1>2, <1>3, CursorMoves DEF Sides
  <1>6. EddiesKept(h) /\ ItemKept(h)
    BY <1>1, <1>3, BombPlain, NoEddies, NoCarries DEF Sides, Beside
  <1> QED
    BY <1>3, <1>4, <1>5, <1>6 DEF Safe, Sides, h

\* The turn goes to the first cursor still out.
LEMMA TurnSafe ==
    ASSUME NEW f \in Safe(BombForms), NEW s \in Slots, f.shots[s].form \in CursorForms
    PROVE  [f EXCEPT !.token = Turn(f)] \in Safe(BombForms)
  <1>1. Sound(f, BombForms) /\ f \in Arenas(BombForms)
    BY DEF Safe
  <1>2. Turn(f) \in Int
    <2>1. CursorsOf(f) \in SUBSET Nat /\ CursorsOf(f) # {}
      BY SlotsFinite DEF CursorsOf, Is
    <2>2. Least(CursorsOf(f)) \in Slots
      BY <2>1, LeastNatural DEF CursorsOf
    <2>3. f.shots[Least(CursorsOf(f))].quad \in Int
      BY <1>1, <2>2, ShotFields DEF ShotRecords
    <2> QED
      BY <1>1, <2>3 DEF Turn, Arenas
  <1> QED
    BY <1>1, <1>2, TokenCalm, CalmSafe

\* A cursor passes the turn on.
LEMMA PassedSafe ==
    ASSUME NEW h \in Safe(BombForms), NEW s \in Slots
    PROVE  Passed(h, s) \in Safe(BombForms)
  <1>1. Sound(h, BombForms) /\ h \in Arenas(BombForms)
    BY DEF Safe
  <1>2. (h.shots[s].quad + 1) % Quadrants \in Int
    BY <1>1, ShotFields, HoldsAssumption DEF ShotRecords
  <1> QED
    BY <1>1, <1>2, TokenCalm, CalmSafe DEF Passed

\* A cursor's tick: it waits, searches in its turn, locks, sends a bee, comes back.
LEMMA CursorSafe ==
    ASSUME NEW f \in Safe(BombForms), NEW s \in Slots, f.shots[s].form \in CursorForms,
           NEW held \in BOOLEAN, NEW seen
    PROVE  CursorTick(f, s, held, seen) \subseteq Safe(BombForms)
  <1> DEFINE F == BombForms
             S == Safe(F)
             g == [f EXCEPT !.token = Turn(f)]
             p == f.shots[s]
             away == Unlocked(g, s)
             found == ParasiticSearch(g, s, seen)
             aimed(e) == Wound(Pointed(g, s, e, "lock"), s, "lock", 1)
             bee == [NoShot EXCEPT !.form = "bee", !.charged = TRUE, !.age = "born", !.quad = p.quad]
             sent == Into(Spawned(g, <<bee>>), s, "busy")
             buzz == \E i \in Slots : Is(g, i, {"bee"}) /\ g.shots[i].quad = p.quad
             on(form) == Wound(g, s, form, 0)
  <1>1. g \in S /\ Sound(g, F)
    BY TurnSafe DEF Safe
  <1>2. f \in Arenas(F) /\ p \in ShotRecords(F) /\ g.shots = f.shots
    BY ShotFields DEF Safe, Arenas
  <1>3. p.form \in {"wait", "back", "lock", "locked", "busy"}
    BY DEF CursorForms, Locking
  <1> HIDE DEF g
  <1>4. p.form # "busy" => Retired(g, s) \in S
    BY <1>1, <1>2, <1>3, BombPlain, RetiredCalm, CalmSafe
  <1>5. \A a \in CursorForms : Turns(p.form, a) => on(a) \in S
    BY <1>1, <1>2, <1>3, BombPlain, TurnedCalm, CalmSafe
  <1> HIDE DEF p, S
  <1>6. ASSUME NEW h \in S PROVE Passed(h, s) \in S
    BY PassedSafe DEF S
  <1>7. CASE p.form = "wait"
    <2>1. \A e \in found : aimed(e) \in S
      BY <1>1, <1>2, <1>7, LockSafe DEF S, p
    <2>2. CursorTick(f, s, held, seen) \subseteq {g, Retired(g, s)} \cup {aimed(e) : e \in found}
      <3> HIDE DEF found, aimed
      <3> QED
        BY <1>2, <1>7 DEF CursorTick, g, p, found, aimed
    <2> HIDE DEF found, aimed
    <2> QED
      BY <1>1, <1>4, <1>7, <2>1, <2>2 DEF S
  <1>8. CASE p.form = "back"
    <2>1. on("wait") \in S
      BY <1>5, <1>8 DEF Turns, CursorForms, Locking
    <2>2. CursorTick(f, s, held, seen) \subseteq {Retired(g, s), on("wait")}
      <3> HIDE DEF on
      <3> QED
        BY <1>2, <1>8 DEF CursorTick, g, p, on
    <2> HIDE DEF on
    <2> QED
      BY <1>4, <1>8, <2>1, <2>2 DEF S
  <1>9. CASE p.form = "lock"
    <2>1. on("lock") \in S /\ on("locked") \in S
      BY <1>5, <1>9 DEF Turns, CursorForms, Locking
    <2>2. away \in S
      BY <1>1, <1>2, <1>9, UnlockedSafe DEF S, p, CursorForms, Locking
    <2>3. CursorTick(f, s, held, seen) \subseteq
             {g, away, Passed(away, s), on("lock"), Passed(on("lock"), s), on("locked"), Passed(on("locked"), s)}
      <3> HIDE DEF on, away
      <3> QED
        BY <1>2, <1>9 DEF CursorTick, g, p, on, away, Unlocked
    <2> HIDE DEF on, away
    <2> QED
      BY <1>1, <1>6, <2>1, <2>2, <2>3 DEF S
  <1>10. CASE p.form = "locked"
    <2>1. bee \in Kids(F) /\ bee.form = "bee" /\ bee.quad = p.quad
      <3>1. NoShot \in ShotRecords(F) /\ "bee" \in F /\ p.quad \in Int
        BY <1>2, BombPlain, NoShotRecord DEF ShotRecords, p
      <3> QED
        BY <3>1 DEF Kids, ShotRecords, NoShot
    <2>2. sent \in S
      <3> HIDE DEF bee
      <3> QED
        BY <1>1, <1>2, <1>10, <2>1, BeeLeaves DEF S, p
    <2>3. away \in S
      BY <1>1, <1>2, <1>10, UnlockedSafe DEF S, p, CursorForms, Locking
    <2>4. CursorTick(f, s, held, seen) \subseteq {g, away, sent}
      <3> HIDE DEF bee, away, sent
      <3> QED
        BY <1>2, <1>10 DEF CursorTick, g, p, bee, away, sent, Unlocked
    <2> HIDE DEF sent, away
    <2> QED
      BY <1>1, <2>2, <2>3, <2>4 DEF S
  <1>11. CASE p.form = "busy"
    <2>1. ~buzz => away \in S
      BY <1>1, <1>2, <1>11, UnlockedSafe DEF S, p, CursorForms, Locking
    <2>2. CursorTick(f, s, held, seen) = {IF buzz THEN g ELSE away}
      <3> HIDE DEF away
      <3> QED
        BY <1>2, <1>11 DEF CursorTick, g, p, away, Unlocked
    <2> HIDE DEF buzz, away
    <2> QED
      BY <1>1, <2>1, <2>2 DEF S
  <1> QED
    BY <1>3, <1>7, <1>8, <1>9, <1>10, <1>11 DEF p

\* The first cursors of a charged bomb: each has a place of its own.
Group(k, m) ==
    {x \in Arenas(BombForms) :
        /\ Sound(x, BombForms) /\ Beside(x, k)
        /\ \A i \in Slots : x.shots[i] = k.shots[i] \/ (k.shots[i].form = "none" /\ x.shots[i].form = "wait")
        /\ \A i \in CursorsOf(x) : x.shots[i].quad <= m
        /\ \A i, j \in CursorsOf(x) : x.shots[i].quad = x.shots[j].quad => i = j}

\* A new cursor takes the next place of the group.
LEMMA GroupGrows ==
    ASSUME NEW k, NEW m \in Nat \ {0}, NEW x \in Group(k, m - 1),
           NEW r \in Kids(BombForms), r.form = "wait", r.quad = m
    PROVE  SpawnChild(x, r) \in Group(k, m)
  <1> DEFINE F == BombForms
             y == SpawnChild(x, r)
  <1>1. Sound(x, F) /\ x \in Arenas(F) /\ Beside(x, k)
    BY DEF Group
  <1>2. y \in Grown(x, F, {r}) /\ \E a \in Slots : y.shots \in {x.shots, [x.shots EXCEPT ![a] = r]}
    BY <1>1, SpawnChildGrows
  <1> HIDE DEF y
  <1>3. PICK a \in Slots : y.shots \in {x.shots, [x.shots EXCEPT ![a] = r]}
    BY <1>2
  <1>4. /\ Sound(y, F) /\ y \in Arenas(F) /\ Beside(y, k)
        /\ \A i \in Slots : y.shots[i] = x.shots[i] \/ (x.shots[i].form = "none" /\ y.shots[i] = r)
    BY <1>1, <1>2 DEF Grown, Sound, Beside
  <1>5. \A i \in Slots : y.shots[i] = x.shots[i] \/ (i = a /\ y.shots[i] = r)
    BY <1>1, <1>3 DEF Arenas
  <1>6. \A i \in Slots : y.shots[i] = k.shots[i] \/ (k.shots[i].form = "none" /\ y.shots[i].form = "wait")
    BY <1>4 DEF Group
  <1>7. ASSUME NEW i \in CursorsOf(x) PROVE x.shots[i].quad <= m - 1 /\ x.shots[i].quad \in Int /\ i \in Slots
    <2>1. i \in Slots
      BY DEF CursorsOf
    <2>2. x.shots[i].quad \in Int
      BY <1>1, <2>1, ShotFields DEF ShotRecords
    <2> QED
      BY <2>1, <2>2 DEF Group
  <1>8. \A i \in CursorsOf(y) : \/ i \in CursorsOf(x) /\ y.shots[i] = x.shots[i]
                                \/ i = a /\ y.shots[i].quad = m
    BY <1>5 DEF CursorsOf, Is
  <1>9. \A i \in CursorsOf(y) : y.shots[i].quad <= m
    BY <1>7, <1>8
  <1>10. \A i, j \in CursorsOf(y) : y.shots[i].quad = y.shots[j].quad => i = j
    <2>1. \A i, j \in CursorsOf(x) : x.shots[i].quad = x.shots[j].quad => i = j
      BY DEF Group
    <2> QED
      BY <1>7, <1>8, <2>1
  <1> QED
    BY <1>4, <1>6, <1>9, <1>10 DEF Group, y

\* A charged bomb sends its cursors out, one to a place.
LEMMA CursorsOut ==
    ASSUME NEW g \in Safe(BombForms), NEW s \in Slots, Fresh(g, s), CursorsOf(g) = {}
    PROVE  LET h == Start(g, s, "wait")
               cursor(q) == [Child(h.shots[s], "wait") EXCEPT !.quad = q]
           IN  Spawned([h EXCEPT !.token = 0], [q \in 1 .. Quadrants - 1 |-> cursor(q)]) \in Safe(BombForms)
  <1> DEFINE F == BombForms
             p == g.shots[s]
             r == [p EXCEPT !.form = "wait", !.age = "born"]
             h == Start(g, s, "wait")
             cursor(q) == [Child(h.shots[s], "wait") EXCEPT !.quad = q]
             k == [h EXCEPT !.token = 0]
             n == Quadrants - 1
             records == [q \in 1 .. n |-> cursor(q)]
             P == [m \in 0 .. n |-> Group(k, m)]
             x == Spawned(k, records)
  <1>1. /\ Sound(g, F) /\ Sides(g) /\ g \in Arenas(F) /\ p \in ShotRecords(F)
        /\ p.form = "fired" /\ p.quad = 0
    BY ShotFields DEF Safe, Sound, Shaped, Fresh
  <1>2. r \in Kids(F) /\ r.form = "wait" /\ r.quad = 0
    BY <1>1, BombPlain DEF Kids, ShotRecords, CursorForms
  <1>3. h = WithShot(g, s, r)
    BY <1>1 DEF Start, WithShot, Arenas, ShotRecords
  <1> HIDE DEF r, h
  <1>4. /\ h \in Arenas(F) /\ Sound(h, F) /\ Beside(h, g)
        /\ h.shots[s] = r /\ \A i \in Slots \ {s} : h.shots[i] = g.shots[i]
    BY <1>1, <1>2, <1>3, RecordSound
  <1>5. k \in Calm(h, F) /\ k.shots = h.shots
    <2>1. [h EXCEPT !.token = 0] \in Calm(h, F)
      BY <1>4, TokenCalm
    <2> QED
      BY <1>4, <2>1 DEF Arenas
  <1> HIDE DEF k
  <1>6. k \in Arenas(F) /\ Sound(k, F) /\ Beside(k, g) /\ k.shots[s] = r
        /\ \A i \in Slots \ {s} : k.shots[i] = g.shots[i]
    BY <1>4, <1>5 DEF Calm, Beside
  <1>7. \A q \in Int : cursor(q) \in Kids(F) /\ cursor(q).form = "wait" /\ cursor(q).quad = q
    <2> DEFINE c == Child(h.shots[s], "wait")
    <2>1. c \in ShotRecords(F) /\ c.form = "wait" /\ c.age = "born"
      <3>1. "wait" \in F /\ r \in ShotRecords(F)
        BY <1>2, BombPlain DEF CursorForms, Kids
      <3> QED
        BY <1>4, <3>1, ChildRecord
    <2> HIDE DEF c
    <2>2. \A q : cursor(q) = [c EXCEPT !.quad = q]
      BY DEF c
    <2> HIDE DEF cursor
    <2> QED
      BY <2>1, <2>2 DEF Kids, ShotRecords
  <1> HIDE DEF cursor
  <1>8. n \in Nat
    BY HoldsAssumption
  <1>9. k \in Group(k, 0)
    <2>1. CursorsOf(k) \subseteq {s}
      BY <1>6 DEF CursorsOf, Is
    <2> QED
      BY <1>2, <1>6, <2>1 DEF Group, Beside
  <1>10. ASSUME NEW m \in 1 .. n, NEW y \in P[m - 1] PROVE SpawnChild(y, records[m]) \in P[m]
    <2>1. records[m] = cursor(m) /\ m - 1 \in 0 .. n /\ m \in 0 .. n /\ m \in Nat \ {0} /\ m \in Int
      BY <1>8
    <2>2. P[m - 1] = Group(k, m - 1) /\ P[m] = Group(k, m)
      BY <1>8, <2>1
    <2> HIDE DEF P, records
    <2>3. y \in Group(k, m - 1) /\ records[m] \in Kids(F) /\ records[m].form = "wait" /\ records[m].quad = m
      BY <1>7, <2>1, <2>2
    <2> QED
      BY <2>1, <2>2, <2>3, GroupGrows
  <1>11. x \in Group(k, n)
    <2>1. Len(records) = n /\ P[0] = Group(k, 0) /\ P[n] = Group(k, n)
      BY <1>8
    <2> HIDE DEF P, records, n
    <2>2. x \in P[n]
      BY <1>8, <1>9, <1>10, <2>1, SpawnedRuns
    <2> QED
      BY <2>1, <2>2
  <1> HIDE DEF x, n
  <1>12. /\ x \in Arenas(F) /\ Sound(x, F) /\ Beside(x, g)
         /\ \A i \in Slots : x.shots[i] = g.shots[i] \/ x.shots[i].form = "wait"
         /\ \A i, j \in CursorsOf(x) : x.shots[i].quad = x.shots[j].quad => i = j
    BY <1>2, <1>6, <1>11 DEF Group, Beside
  <1>13. HeldOnce(x)
    <2>1. "wait" \notin Freezing \cup Carrying \cup Locking
      BY DEF Freezing, Carrying, Locking
    <2> QED
      BY <1>1, <1>12, <2>1, HeldSame DEF Sides
  <1>14. BeesKept(x)
    <2>1. \A i \in Slots : ~Is(g, i, {"busy"})
      BY DEF CursorsOf, CursorForms, Locking, Is
    <2>2. \A i \in Slots : ~Is(g, i, {"bee"})
      BY <1>1, <2>1 DEF Sides, BeesKept
    <2>3. \A i \in Slots : ~Is(x, i, {"bee"})
      BY <1>12, <2>2 DEF Is
    <2> QED
      BY <1>12, <2>3 DEF BeesKept
  <1>15. EddiesKept(x) /\ ItemKept(x)
    BY <1>1, <1>12, BombPlain, NoEddies, NoCarries DEF Sides, Beside
  <1> QED
    BY <1>12, <1>13, <1>14, <1>15 DEF Safe, Sides, x, records, cursor, k, h, n

\* The parasitic bomb's tick.
LEMMA ParasiticSafe ==
    ASSUME NEW g \in Safe(BombForms), NEW s \in Slots, g.shots[s].form # "none", NEW held \in BOOLEAN, NEW seen
    PROVE  ParasiticTick(g, s, held, seen) \subseteq Safe(BombForms)
  <1> DEFINE F == BombForms
             S == Safe(F)
             p == g.shots[s]
             h == Start(g, s, "wait")
             cursor(q) == [Child(h.shots[s], "wait") EXCEPT !.quad = q]
             out == Spawned([h EXCEPT !.token = 0], [q \in 1 .. Quadrants - 1 |-> cursor(q)])
             ride == Wound(g, s, "payload", p.clock - 1)
             course == [bomb |-> {}, bee |-> {}]
  <1>1. /\ Sound(g, F) /\ g \in Arenas(F) /\ p \in ShotRecords(F)
        /\ p.form \in F /\ p.form \notin {"none", "carry"}
    BY ShotFields, FormOf, BombPlain DEF Safe, Sound
  <1>2. g \in S /\ (p.form # "busy" => Retired(g, s) \in S)
    BY <1>1, BombPlain, RetiredCalm, CalmSafe
  <1>3. CASE Fresh(g, s)
    <2>1. p.form = "fired" /\ p.age = "new"
      BY <1>1, <1>3 DEF Sound, Shaped, Fresh
    <2>2. CursorsOf(g) = {} => out \in S
      BY <1>3, CursorsOut
    <2>3. \A refused : Launch(g, s, refused, "bomb", <<>>) \subseteq S
      <3>1. <<>> \in Seq(Plain(F))
        BY BombPlain, ShortSequences
      <3>2. \A refused : Launch(g, s, refused, "bomb", <<>>) \subseteq Calm(g, F)
        BY <1>1, <1>3, <3>1, BombPlain, LaunchCalm
      <3> QED
        BY <1>2, <3>2, CalmSafe
    <2>4. \E refused : ParasiticTick(g, s, held, seen) \subseteq
             {Retired(g, s)} \cup (IF CursorsOf(g) = {} THEN {out} ELSE {})
             \cup Launch(g, s, refused, "bomb", <<>>)
      <3> DEFINE plain == {i \in Others(g, s) : ~g.shots[i].charged}
                 refused == Cardinality(plain) >= 3
      <3>1. ParasiticTick(g, s, held, seen) \subseteq
             {Retired(g, s)} \cup (IF CursorsOf(g) = {} THEN {out} ELSE {})
             \cup Launch(g, s, refused, "bomb", <<>>)
        <4> HIDE DEF out
        <4> QED
          BY <1>3, <2>1 DEF ParasiticTick, out, CursorForms, Locking
      <3> HIDE DEF refused, out
      <3> QED
        BY <3>1
    <2> HIDE DEF out, S
    <2> QED
      BY <1>2, <2>1, <2>2, <2>3, <2>4 DEF S
  <1>4. CASE ~Fresh(g, s)
    <2>1. p.form # "fired"
      BY <1>1, <1>4 DEF Sound, Shaped, Fresh
    <2>2. p.form \in CursorForms => CursorTick(g, s, held, seen) \subseteq S
      BY CursorSafe
    <2>3. p.form = "payload" => ride \in S
      <3>1. Turns("payload", "payload") /\ p.clock - 1 \in Int /\ "payload" \in F \ {"none", "fired", "fade"}
        BY <1>1, BombPlain DEF Turns, ShotRecords
      <3>2. p.form = "payload" => ride \in Calm(g, F)
        BY <1>1, <3>1, TurnedCalm
      <3> QED
        BY <3>2, CalmSafe
    <2>4. p.form \in {"bomb", "bee"} => Fly(g, s, course) \subseteq S
      <3>1. p.form \in {"bomb", "bee"} => course[p.form] \subseteq Ways(F)
        OBVIOUS
      <3> HIDE DEF course
      <3>2. p.form \in {"bomb", "bee"} => Fly(g, s, course) \subseteq Calm(g, F)
        BY <1>1, <2>1, <3>1, BombPlain, FlyCalm
      <3> QED
        BY <3>2, CalmSafe
    <2>5. ParasiticTick(g, s, held, seen) \subseteq
             {g} \cup (IF p.form = "payload" THEN {Retired(g, s), ride} ELSE {})
             \cup (IF p.form \in CursorForms THEN CursorTick(g, s, held, seen) ELSE {})
             \cup (IF p.form \in {"bomb", "bee"} THEN Fly(g, s, course) ELSE {})
      <3> HIDE DEF course, ride
      <3>1. p.form \in {"payload", "bomb", "bee"} \cup CursorForms /\ "payload" \notin CursorForms
        BY <1>1, <2>1 DEF BombForms, CursorForms, Locking
      <3> QED
        BY <1>4, <3>1 DEF ParasiticTick, course, ride
    <2>6. g \in S /\ (p.form = "payload" => Retired(g, s) \in S)
      BY <1>2
    <2> HIDE DEF course, ride, S, p
    <2>7. CASE p.form = "payload"
      BY <2>2, <2>3, <2>4, <2>5, <2>6, <2>7 DEF S
    <2>8. CASE p.form # "payload"
      BY <2>2, <2>4, <2>5, <2>6, <2>8 DEF S
    <2> QED
      BY <2>7, <2>8
  <1> QED
    BY <1>3, <1>4

-----------------------------------------------------------------------------
(* The well's victims *)

\* An arena whose effects and enemies alone differ.
LEMMA EffectsSafe ==
    ASSUME NEW F, NEW g \in Safe(F), NEW h \in Arenas(F), h.shots = g.shots, h.actors = g.actors,
           h.count = g.count, h.item = g.item, HeldOnce(h)
    PROVE  h \in Safe(F)
  <1>1. Sound(g, F) /\ Sides(g)
    BY DEF Safe
  <1>2. Sound(h, F)
    BY <1>1 DEF Sound, Shaped, Counted, Owning, Recorded
  <1>3. EddiesKept(h) /\ BeesKept(h) /\ ItemKept(h)
    BY <1>1 DEF Sides, EddiesKept, BeesKept, ItemKept, CursorsOf, Is
  <1> QED
    BY <1>2, <1>3 DEF Safe, Sides

\* An arena as g, with other enemies and effects.
OtherEffects(g, h) == /\ h.shots = g.shots /\ h.actors = g.actors /\ h.count = g.count
                      /\ h.item = g.item /\ h.partner = g.partner

\* Victims let go: nobody is held who was not.
LEMMA VictimsLess ==
    ASSUME NEW F, NEW g \in Safe(F), NEW h \in Arenas(F), OtherEffects(g, h),
           \A y \in Effects : h.effects[y].target \in {0, g.effects[y].target}
    PROVE  h \in Safe(F)
  <1>1. HeldOnce(g)
    BY DEF Safe, Sides
  <1>2. h.shots = g.shots /\ h.partner = g.partner
    BY DEF OtherEffects
  <1>3. \A e \in Foes : \A y \in Effects : h.effects[y].target = e => g.effects[y].target = e
    BY DEF Foes
  <1>4. h.partner \in SUBSET Foes
    BY DEF Arenas
  <1>5. \A s \in Slots : \A e : Holds(h, s, e) <=> Holds(g, s, e)
    BY <1>2 DEF Holds, Is
  <1>6. \A s \in Slots : Is(h, s, Locking) <=> Is(g, s, Locking)
    BY <1>2 DEF Is
  <1>7. /\ \A e \in Foes : \A s, t \in Slots : Holds(h, s, e) /\ Holds(h, t, e) => s = t
        /\ \A e \in Foes : \A x, y \in Effects : h.effects[x].target = e /\ h.effects[y].target = e => x = y
        /\ \A e \in Foes : \A s \in Slots, x \in Effects : ~(Holds(h, s, e) /\ h.effects[x].target = e)
    BY <1>1, <1>3, <1>5 DEF HeldOnce
  <1>8. /\ \A e \in h.partner : \A s \in Slots : ~Holds(h, s, e)
        /\ \A e \in h.partner : \A x \in Effects : h.effects[x].target # e
    BY <1>1, <1>2, <1>3, <1>4, <1>5 DEF HeldOnce
  <1>9. \A s, t \in Slots : Is(h, s, Locking) /\ Is(h, t, Locking) /\ h.shots[s].target = h.shots[t].target => s = t
    BY <1>1, <1>2, <1>6 DEF HeldOnce
  <1>10. HeldOnce(h)
    BY <1>7, <1>8, <1>9 DEF HeldOnce
  <1> QED
    BY <1>10, EffectsSafe DEF OtherEffects

\* An enemy destroyed leaves the shots and the effects alone.
LEMMA DestroyedArena ==
    ASSUME NEW F, NEW g \in Arenas(F), NEW p
    PROVE  /\ Destroyed(g, p) \in Arenas(F) /\ OtherEffects(g, Destroyed(g, p))
           /\ Destroyed(g, p).effects = g.effects
  BY DEF Destroyed, Host, Arenas, NoFoe, OtherEffects

\* A victim's effect goes on, or ends.
LEMMA EffectTickSafe ==
    ASSUME NEW F, NEW g \in Safe(F), NEW x \in Effects
    PROVE  GravityEffectTick(g, x) \in Safe(F) /\ GravityEffectTick(g, x).shots = g.shots
  <1> DEFINE v == g.effects[x]
             freed(h) == [h EXCEPT !.effects[x] = NoVictim]
             less == [g EXCEPT !.effects[x].clock = @ - 1]
             dead == Destroyed(g, v)
  <1>1. g \in Arenas(F) /\ v \in [target : Int, kind : AnyKind, clock : Int]
        /\ g.effects \in [Effects -> [target : Int, kind : AnyKind, clock : Int]]
    BY DEF Safe, Arenas
  <1>2. NoVictim \in [target : Int, kind : AnyKind, clock : Int] /\ NoVictim.target = 0
    BY DEF NoVictim, AnyKind
  <1>3. ASSUME NEW h \in Arenas(F), OtherEffects(g, h), h.effects = g.effects
        PROVE  freed(h) \in Safe(F) /\ freed(h).shots = g.shots
    <2>1. freed(h) \in Arenas(F) /\ OtherEffects(g, freed(h)) /\ freed(h).effects = [g.effects EXCEPT ![x] = NoVictim]
      BY <1>2, <1>3 DEF Arenas, OtherEffects
    <2> HIDE DEF freed
    <2>2. \A y \in Effects : freed(h).effects[y].target \in {0, g.effects[y].target}
      BY <1>1, <1>2, <2>1
    <2> QED
      BY <2>1, <2>2, VictimsLess DEF OtherEffects
  <1>4. freed(g) \in Safe(F) /\ freed(g).shots = g.shots
    <2>1. OtherEffects(g, g)
      BY DEF OtherEffects
    <2> HIDE DEF freed
    <2> QED
      BY <1>1, <1>3, <2>1
  <1>5. freed(dead) \in Safe(F) /\ freed(dead).shots = g.shots
    <2> HIDE DEF freed
    <2> QED
      BY <1>1, <1>3, DestroyedArena
  <1>6. less \in Safe(F) /\ less.shots = g.shots
    <2> DEFINE w == [v EXCEPT !.clock = v.clock - 1]
    <2>1. w \in [target : Int, kind : AnyKind, clock : Int] /\ w.target = v.target
      BY <1>1
    <2>2. less = [g EXCEPT !.effects[x] = w]
      BY <1>1 DEF Arenas
    <2> HIDE DEF w, less
    <2>3. less \in Arenas(F) /\ OtherEffects(g, less) /\ less.effects = [g.effects EXCEPT ![x] = w]
      BY <1>1, <2>1, <2>2 DEF Arenas, OtherEffects
    <2>4. \A y \in Effects : less.effects[y].target \in {0, g.effects[y].target}
      BY <1>1, <2>1, <2>3
    <2> QED
      BY <2>3, <2>4, VictimsLess DEF OtherEffects
  <1>7. GravityEffectTick(g, x) \in {g, freed(g), freed(dead), less}
    <2> HIDE DEF dead
    <2> QED
      BY DEF GravityEffectTick, dead
  <1> HIDE DEF freed, less, dead
  <1> QED
    BY <1>4, <1>5, <1>6, <1>7

\* An enemy nobody holds is captured by a free effect.
LEMMA CapturedSafe ==
    ASSUME NEW F, NEW g \in Safe(F), NEW e \in Foes
    PROVE  Captured(g, e) \in Safe(F) /\ Captured(g, e).shots = g.shots
  <1> DEFINE free == {x \in Effects : g.effects[x] = NoVictim}
             x == Least(free)
             w == [target |-> e, kind |-> g.enemies[e], clock |-> VictimLife]
             h == [g EXCEPT !.effects[x] = w]
  <1>1. CASE Captured(g, e) = g
    BY <1>1
  <1>2. CASE Captured(g, e) # g
    <2>1. ~Held(g, e) /\ free # {} /\ Captured(g, e) = h
      BY <1>2 DEF Captured
    <2>2. x \in Effects
      <3>1. free \in SUBSET Nat
        BY PoolAssumption DEF Effects
      <3>2. x \in free
        BY <2>1, <3>1, LeastNatural
      <3> QED
        BY <3>2
    <2> HIDE DEF x, free
    <2>3. /\ g \in Arenas(F) /\ HeldOnce(g)
          /\ g.effects \in [Effects -> [target : Int, kind : AnyKind, clock : Int]]
      BY DEF Safe, Arenas, Sides
    <2>4. w \in [target : Int, kind : AnyKind, clock : Int] /\ w.target = e
      <3>1. g.enemies[e] \in AnyKind
        BY <2>3 DEF Arenas, AnyKind, NoFoe
      <3>2. e \in Int /\ VictimLife \in Int
        BY HoldsAssumption DEF Foes
      <3> QED
        BY <3>1, <3>2
    <2> HIDE DEF w
    <2>5. h \in Arenas(F) /\ OtherEffects(g, h) /\ h.effects = [g.effects EXCEPT ![x] = w]
      BY <2>2, <2>3, <2>4 DEF Arenas, OtherEffects
    <2> HIDE DEF h
    <2>6. h.shots = g.shots /\ h.partner = g.partner
      BY <2>5 DEF OtherEffects
    <2>7. /\ \A s \in Slots : ~Holds(g, s, e)
          /\ \A y \in Effects : g.effects[y].target # e
          /\ e \notin g.partner
      BY <2>1, NotHeld
    <2>8. \A y \in Effects : \A d : h.effects[y].target = d =>
             \/ y = x /\ d = e
             \/ g.effects[y].target = d
      BY <2>2, <2>3, <2>4, <2>5
    <2>9. \A s \in Slots : \A d : Holds(h, s, d) <=> Holds(g, s, d)
      BY <2>6 DEF Holds, Is
    <2>10. /\ \A d \in Foes : \A s, t \in Slots : Holds(h, s, d) /\ Holds(h, t, d) => s = t
           /\ \A d \in Foes : \A s \in Slots, y \in Effects : ~(Holds(h, s, d) /\ h.effects[y].target = d)
      BY <2>3, <2>7, <2>8, <2>9 DEF HeldOnce
    <2>11. \A d \in Foes : \A y, z \in Effects : h.effects[y].target = d /\ h.effects[z].target = d => y = z
      BY <2>3, <2>7, <2>8 DEF HeldOnce
    <2>12. /\ \A d \in h.partner : \A s \in Slots : ~Holds(h, s, d)
           /\ \A d \in h.partner : \A y \in Effects : h.effects[y].target # d
      BY <2>3, <2>6, <2>7, <2>8, <2>9 DEF HeldOnce
    <2>13. \A s, t \in Slots : Is(h, s, Locking) /\ Is(h, t, Locking) /\ h.shots[s].target = h.shots[t].target => s = t
      BY <2>3, <2>6 DEF HeldOnce, Is
    <2>14. HeldOnce(h)
      BY <2>10, <2>11, <2>12, <2>13 DEF HeldOnce
    <2> QED
      BY <2>1, <2>5, <2>14, EffectsSafe DEF OtherEffects
  <1> QED
    BY <1>1, <1>2

\* All the effects of a frame.
LEMMA EffectsTickedSafe ==
    ASSUME NEW F, NEW g \in Safe(F)
    PROVE  EffectsTicked(g) \in Safe(F) /\ EffectsTicked(g).shots = g.shots
  <1> DEFINE T == {h \in Safe(F) : h.shots = g.shots}
             n == EffectCount
             P == [i \in 0 .. n |-> T]
             One(h, i) == GravityEffectTick(h, i)
             step == [i \in 1 .. n |-> [h \in T |-> One(h, i)]]
             after == CHOOSE f : f = [i \in 0 .. n |-> IF i = 0 THEN g ELSE One(f[i - 1], i)]
  <1>1. g \in T /\ n \in Nat
    BY PoolAssumption
  <1>2. ASSUME NEW i \in 1 .. n, NEW h \in T PROVE One(h, i) \in T
    BY EffectTickSafe DEF Effects
  <1>3. EffectsTicked(g) = after[n]
    BY Zenon DEF EffectsTicked, Through
  <1> HIDE DEF T, One
  <1>4. PICK f : Runs(f, step, n, g) /\ Within(f, n, P)
    <2>1. g \in P[0] /\ Leading(step, n, P)
      BY <1>1, <1>2 DEF Leading
    <2> HIDE DEF P, step, n
    <2> QED
      BY <1>1, <2>1, LoopRuns
  <1>5. f = [i \in 0 .. n |-> IF i = 0 THEN g ELSE One(f[i - 1], i)]
    <2>1. ASSUME NEW i \in 1 .. n PROVE step[i][f[i - 1]] = One(f[i - 1], i)
      <3>1. i - 1 \in 0 .. n /\ P[i - 1] = T
        BY <1>1
      <3>2. f[i - 1] \in T
        BY <1>4, <3>1 DEF Within
      <3> QED
        BY <3>2
    <2> HIDE DEF step, P
    <2> QED
      BY <1>1, <1>4, <2>1 DEF Runs
  <1>6. after = [i \in 0 .. n |-> IF i = 0 THEN g ELSE One(after[i - 1], i)]
    BY <1>5
  <1> HIDE DEF after
  <1>7. after[n] \in P[n]
    <2>1. ASSUME NEW i \in 1 .. n, after[i - 1] \in P[i - 1] PROVE after[i] \in P[i]
      BY <1>1, <1>2, <1>6, <2>1
    <2>2. after[0] \in P[0]
      BY <1>1, <1>6
    <2> HIDE DEF P, n
    <2> QED
      BY <1>1, <2>1, <2>2, LoopKeeps
  <1>8. P[n] = T
    BY <1>1
  <1> QED
    BY <1>3, <1>7, <1>8 DEF T

\* A well in force captures the enemies in view, one after the other.
LEMMA CaptureSafe ==
    ASSUME NEW F, NEW g \in Safe(F), NEW seen
    PROVE  GravityCapture(g, seen) \in Safe(F) /\ GravityCapture(g, seen).shots = g.shots
  <1> DEFINE T == {h \in Safe(F) : h.shots = g.shots}
             n == EnemyCount
             P == [i \in 0 .. n |-> T]
             One(h, i) == IF i \in seen THEN Captured(h, i) ELSE h
             step == [i \in 1 .. n |-> [h \in T |-> One(h, i)]]
             after == CHOOSE f : f = [i \in 0 .. n |-> IF i = 0 THEN g ELSE One(f[i - 1], i)]
  <1>1. g \in T /\ n \in Nat
    BY PoolAssumption
  <1>2. ASSUME NEW i \in 1 .. n, NEW h \in T PROVE One(h, i) \in T
    <2>1. Captured(h, i) \in T
      BY CapturedSafe DEF Foes
    <2> HIDE DEF T
    <2> QED
      BY <2>1
  <1>3. GravityCapture(g, seen) = after[n]
    BY Zenon DEF GravityCapture, Through
  <1> HIDE DEF T, One
  <1>4. PICK f : Runs(f, step, n, g) /\ Within(f, n, P)
    <2>1. g \in P[0] /\ Leading(step, n, P)
      BY <1>1, <1>2 DEF Leading
    <2> HIDE DEF P, step, n
    <2> QED
      BY <1>1, <2>1, LoopRuns
  <1>5. f = [i \in 0 .. n |-> IF i = 0 THEN g ELSE One(f[i - 1], i)]
    <2>1. ASSUME NEW i \in 1 .. n PROVE step[i][f[i - 1]] = One(f[i - 1], i)
      <3>1. i - 1 \in 0 .. n /\ P[i - 1] = T
        BY <1>1
      <3>2. f[i - 1] \in T
        BY <1>4, <3>1 DEF Within
      <3> QED
        BY <3>2
    <2> HIDE DEF step, P
    <2> QED
      BY <1>1, <1>4, <2>1 DEF Runs
  <1>6. after = [i \in 0 .. n |-> IF i = 0 THEN g ELSE One(after[i - 1], i)]
    BY <1>5
  <1> HIDE DEF after
  <1>7. after[n] \in P[n]
    <2>1. ASSUME NEW i \in 1 .. n, after[i - 1] \in P[i - 1] PROVE after[i] \in P[i]
      BY <1>1, <1>2, <1>6, <2>1
    <2>2. after[0] \in P[0]
      BY <1>1, <1>6
    <2> HIDE DEF P, n
    <2> QED
      BY <1>1, <2>1, <2>2, LoopKeeps
  <1>8. P[n] = T
    BY <1>1
  <1> QED
    BY <1>3, <1>7, <1>8 DEF T

PitForms == {"none", "fired", "body"} \cup WellForms

\* The forms of the gravity well.
LEMMA PitPlain ==
    /\ "none" \in PitForms /\ {"carry", "busy"} \cap PitForms = {}
    /\ {"body"} \cup WellForms \subseteq Plain(PitForms)
    /\ "fade" \notin PitForms
  BY DEF PitForms, WellForms, Plain, Special, Freezing, Carrying, CursorForms, Locking

\* All the wells that were cast rise.
LEMMA RaisedSafe ==
    ASSUME NEW g \in Safe(PitForms), NEW h,
           h = [g EXCEPT !.shots = [i \in Slots |->
                  IF i \in Wells(g) /\ Is(g, i, {"cast"}) THEN [@[i] EXCEPT !.form = "rise"] ELSE @[i]]]
    PROVE  h \in Safe(PitForms)
  <1> DEFINE F == PitForms
             sh == [i \in Slots |-> IF i \in Wells(g) /\ Is(g, i, {"cast"})
                                    THEN [g.shots[i] EXCEPT !.form = "rise"] ELSE g.shots[i]]
  <1>0. Sound(g, F) /\ g \in Arenas(F)
    BY DEF Safe, Sound
  <1>1. /\ Sound(g, F) /\ g \in Arenas(F) /\ g.shots \in [Slots -> ShotRecords(F)]
        /\ \A i \in Slots : g.shots[i].form = "cast" => g.shots[i].age # "new"
    <2>1. g.shots \in [Slots -> ShotRecords(F)]
      BY <1>0 DEF Arenas
    <2>2. \A i \in Slots : g.shots[i].form = "cast" => g.shots[i].age # "new"
      BY <1>0 DEF Sound, Shaped
    <2> QED
      BY <1>0, <2>1, <2>2
  <1>2. \A i \in Slots : Is(g, i, {"cast"}) => [g.shots[i] EXCEPT !.form = "rise"] \in PlainKids(F)
    <2>1. "rise" \in F \ (Special \cup {"none", "fired"})
      BY PitPlain DEF Plain, WellForms, Special
    <2> QED
      BY <1>1, <2>1 DEF PlainKids, Kids, ShotRecords, Is
  <1>3. sh \in [Slots -> ShotRecords(F)]
    BY <1>1, <1>2 DEF PlainKids, Kids
  <1>4. \A i \in Slots : \/ sh[i] = g.shots[i]
                         \/ sh[i] \in PlainKids(F) /\ g.shots[i].form \notin {"none", "carry", "busy"}
    BY <1>2 DEF Is
  <1>5. h = [g EXCEPT !.shots = sh]
    BY <1>1 DEF Arenas
  <1> HIDE DEF sh
  <1> QED
    BY <1>1, <1>3, <1>4, <1>5, RecordsCalm, CalmSafe

\* The gravity well's tick.
LEMMA GravitySafe ==
    ASSUME NEW g \in Safe(PitForms), NEW s \in Slots, g.shots[s].form # "none", NEW seen
    PROVE  GravityTick(g, s, seen) \subseteq Safe(PitForms)
  <1> DEFINE F == PitForms
             S == Safe(F)
             p == g.shots[s]
             h == Start(g, s, "cast")
             out == Spawned(h, <<Child(h.shots[s], "body")>>)
             caught == GravityCapture(g, seen)
             raised == [g EXCEPT !.shots = [i \in Slots |->
                     IF i \in Wells(g) /\ Is(g, i, {"cast"}) THEN [@[i] EXCEPT !.form = "rise"] ELSE @[i]]]
             course == [well |-> {To("open")}, close |-> {To("return")}, return |-> {}]
  <1>1. /\ Sound(g, F) /\ g \in Arenas(F) /\ p \in ShotRecords(F)
        /\ p.form \in F /\ p.form \notin {"none", "carry", "busy"}
    BY ShotFields, FormOf, PitPlain DEF Safe, Sound
  <1>2. g \in S /\ Retired(g, s) \in S
    BY <1>1, PitPlain, RetiredCalm, CalmSafe
  <1>3. CASE Fresh(g, s)
    <2>1. p.form = "fired" /\ p.age = "new"
      BY <1>1, <1>3 DEF Sound, Shaped, Fresh
    <2>2. \A refused : Launch(g, s, refused, "well", <<>>) \subseteq S
      <3>1. <<>> \in Seq(Plain(F)) /\ "well" \in Plain(F)
        BY PitPlain, ShortSequences DEF WellForms
      <3>2. \A refused : Launch(g, s, refused, "well", <<>>) \subseteq Calm(g, F)
        BY <1>1, <1>3, <3>1, PitPlain, LaunchCalm
      <3> QED
        BY <1>2, <3>2, CalmSafe
    <2>3. out \in S
      <3>1. "cast" \in Plain(F) /\ "body" \in Plain(F)
        BY PitPlain DEF WellForms
      <3>2. h \in Calm(g, F) /\ Sound(h, F) /\ h \in Arenas(F)
        BY <1>1, <1>3, <3>1, StartCalm DEF Calm
      <3> HIDE DEF h
      <3>3. Child(h.shots[s], "body") \in PlainKids(F)
        BY <3>1, <3>2, ShotFields, ChildPlain
      <3>4. out \in Calm(h, F)
        BY <3>2, <3>3, OneKidCalm
      <3> HIDE DEF out
      <3> QED
        BY <1>2, <3>2, <3>4, CalmTwice, CalmSafe
    <2>4. \E refused : GravityTick(g, s, seen) \subseteq {Retired(g, s), out} \cup Launch(g, s, refused, "well", <<>>)
      <3> DEFINE refused == Others(g, s) # {}
      <3>1. GravityTick(g, s, seen) \subseteq {Retired(g, s), out} \cup Launch(g, s, refused, "well", <<>>)
        <4> HIDE DEF out
        <4> QED
          BY <1>3, <2>1 DEF GravityTick, out
      <3> HIDE DEF refused, out
      <3> QED
        BY <3>1
    <2> HIDE DEF out, S
    <2> QED
      BY <1>2, <2>2, <2>3, <2>4 DEF S
  <1>4. CASE ~Fresh(g, s)
    <2>1. p.form # "fired"
      BY <1>1, <1>4 DEF Sound, Shaped, Fresh
    <2>2. raised \in S
      BY RaisedSafe
    <2>3. \A c \in Int : \A a \in {"pull", "field", "close"} : \A k \in {g, caught} :
             Wound(k, s, a, c) \in S /\ Into(k, s, a) \in S /\ Retired(k, s) \in S
      <3> SUFFICES ASSUME NEW c \in Int, NEW a \in {"pull", "field", "close"}, NEW k \in S, k.shots = g.shots
                   PROVE  Wound(k, s, a, c) \in S /\ Into(k, s, a) \in S /\ Retired(k, s) \in S
        BY <1>2, CaptureSafe
      <3>1. Sound(k, F) /\ k.shots[s].form \notin {"none", "fired", "carry", "busy"}
        BY <1>1, <2>1 DEF Safe
      <3>2. a \in F \ {"none", "fired", "fade"} /\ a \notin Special
        BY PitPlain DEF WellForms, Plain, Special
      <3>3. Turns(k.shots[s].form, a)
        BY <3>1, <3>2 DEF Turns
      <3>4. Wound(k, s, a, c) \in Calm(k, F) /\ Into(k, s, a) \in Calm(k, F) /\ Retired(k, s) \in Calm(k, F)
        BY <3>1, <3>2, <3>3, PitPlain, TurnedCalm, RetiredCalm
      <3> QED
        BY <3>4, CalmSafe
    <2>4. p.form \in {"well", "close", "return"} => Fly(g, s, course) \subseteq S
      <3>1. To("open") \in Ways(F) /\ To("return") \in Ways(F)
        <4>1. {"open", "return", "body"} \subseteq Plain(F)
          BY PitPlain DEF WellForms
        <4> QED
          BY <4>1, WaysOf
      <3>2. p.form \in {"well", "close", "return"} => course[p.form] \subseteq Ways(F)
        BY <3>1
      <3> HIDE DEF course
      <3>3. p.form \in {"well", "close", "return"} => Fly(g, s, course) \subseteq Calm(g, F)
        BY <1>1, <2>1, <3>2, PitPlain, FlyCalm
      <3> QED
        BY <3>3, CalmSafe
    <2>5. GravityTick(g, s, seen) \subseteq
             {g, raised} \cup {Retired(k, s) : k \in {g, caught}}
             \cup {Wound(k, s, a, c) : k \in {g, caught}, a \in {"pull", "field"}, c \in {p.clock - 1, PullLife, FieldLife}}
             \cup {Into(caught, s, "close")}
             \cup (IF p.form \in {"well", "close", "return"} THEN Fly(g, s, course) ELSE {})
      <3> HIDE DEF course, raised, caught
      <3>1. p.form \in {"body", "well", "open", "pull", "close", "return", "cast", "rise", "field"}
        BY <1>1, <2>1 DEF PitForms, WellForms
      <3> QED
        BY <1>4, <3>1 DEF GravityTick, course, raised, caught
    <2>6. p.clock - 1 \in Int /\ PullLife \in Int /\ FieldLife \in Int
      BY <1>1, HoldsAssumption DEF ShotRecords
    <2> HIDE DEF course, raised, S, caught
    <2> QED
      BY <1>2, <2>2, <2>3, <2>4, <2>5, <2>6 DEF S
  <1> QED
    BY <1>3, <1>4

-----------------------------------------------------------------------------
(* The strike chain *)

\* One record put in its slot.
LEMMA ShotPut ==
    ASSUME NEW F, NEW g \in Arenas(F), NEW s \in Slots, NEW r \in ShotRecords(F), NEW h, h = WithShot(g, s, r)
    PROVE  h \in Arenas(F)
  BY DEF Arenas, WithShot

\* The pickup after the end of a shot.
ItemAfter(g, s) ==
    IF g.shots[s].form = "carry" /\ g.item.kind = g.shots[s].kind
    THEN [g.item EXCEPT !.taken = FALSE] ELSE g.item

\* What the end of a shot changes, in whatever state the slots are.
LEMMA RetiredFields ==
    ASSUME NEW F, "none" \in F, NEW g \in Arenas(F), Counted(g), NEW s \in Slots, NEW h, h = Retired(g, s)
    PROVE  /\ h \in Arenas(F) /\ Counted(h)
           /\ h.shots = [g.shots EXCEPT ![s] = NoShot]
           /\ h.actors = [g.actors EXCEPT ![s] = IF g.actors[s] = "owned" THEN "free" ELSE @]
           /\ h.partner = g.partner /\ h.effects = g.effects
           /\ h.item = ItemAfter(g, s)
  <1> DEFINE p == g.shots[s]
             r == Released(g, p)
             owned == g.actors[s] = "owned"
             freed == p.form = "carry" /\ g.item.kind = p.kind
  <1>1. g \in Arenas(F) /\ p \in ShotRecords(F)
    BY ShotFields
  <1>2. /\ r \in Arenas(F) /\ r.shots = g.shots /\ r.actors = g.actors /\ r.count = g.count
        /\ r.partner = g.partner /\ r.effects = g.effects
        /\ r.item = IF freed THEN [g.item EXCEPT !.taken = FALSE] ELSE g.item
    <2>1. CASE p.form \in Carrying \cup Freezing
      <3>1. r = Destroyed(g, p) /\ ~freed
        BY <2>1 DEF Released, Carrying, Freezing
      <3>2. Destroyed(g, p) \in Arenas(F) /\ OtherEffects(g, Destroyed(g, p)) /\ Destroyed(g, p).effects = g.effects
        BY DestroyedArena
      <3> QED
        BY <3>1, <3>2 DEF OtherEffects
    <2>2. CASE freed
      <3>1. r = [g EXCEPT !.item.taken = FALSE]
        BY <2>2 DEF Released, Carrying, Freezing
      <3> HIDE DEF r
      <3> QED
        BY <2>2, <3>1 DEF Arenas
    <2>3. CASE p.form \notin Carrying \cup Freezing /\ ~freed
      <3>1. r = g
        BY <2>3 DEF Released
      <3> QED
        BY <2>3, <3>1
    <2> QED
      BY <2>1, <2>2, <2>3
  <1>3. g.count \in Nat /\ (owned => g.count > 0)
    <2> DEFINE A == {i \in Slots : g.actors[i] # "free"}
    <2>1. IsFiniteSet(Slots) /\ A \in SUBSET Slots
      BY SlotsFinite
    <2>2. IsFiniteSet(A) /\ Cardinality(A) \in Nat
      BY <2>1, FS_Subset, FS_CardinalityType
    <2>3. g.count = Cardinality(A)
      BY DEF Counted
    <2>4. owned => A # {}
      OBVIOUS
    <2> HIDE DEF A
    <2> QED
      BY <2>2, <2>3, <2>4, FS_EmptySet
  <1>4. h = [r EXCEPT !.actors[s] = IF owned THEN "free" ELSE @,
                      !.count = IF owned /\ @ > 0 THEN @ - 1 ELSE @, !.shots[s] = NoShot]
    BY DEF Retired
  <1> HIDE DEF r, freed
  <1>5. h \in Arenas(F)
    <2> DEFINE c == IF owned /\ r.count > 0 THEN r.count - 1 ELSE r.count
               a == IF owned THEN "free" ELSE r.actors[s]
    <2>1. c \in Int /\ a \in {"free", "owned", "native"} /\ NoShot \in ShotRecords(F)
      BY <1>2, NoShotRecord DEF Arenas
    <2>2. h = [r EXCEPT !.actors[s] = a, !.count = c, !.shots[s] = NoShot]
      BY <1>4
    <2> HIDE DEF a, c
    <2> DEFINE r1 == [r EXCEPT !.actors[s] = a]
               r2 == [r1 EXCEPT !.count = c]
    <2>3. r1 \in Arenas(F)
      BY <1>2, <2>1 DEF Arenas
    <2>4. r2 \in Arenas(F)
      <3> HIDE DEF r1
      <3> QED
        BY <2>1, <2>3 DEF Arenas
    <2>5. h = WithShot(r2, s, NoShot)
      BY <1>2, <2>2 DEF Arenas, WithShot
    <2> HIDE DEF r2
    <2> QED
      BY <2>1, <2>4, <2>5, ShotPut
  <1>6. /\ h.shots = [g.shots EXCEPT ![s] = NoShot]
        /\ h.actors = [g.actors EXCEPT ![s] = IF owned THEN "free" ELSE @]
        /\ h.count = IF owned THEN g.count - 1 ELSE g.count
        /\ h.partner = g.partner /\ h.effects = g.effects /\ h.item = r.item
    BY <1>1, <1>2, <1>3, <1>4 DEF Arenas
  <1>7. Counted(h)
    <2>1. CASE owned
      <3>1. h.actors = [g.actors EXCEPT ![s] = "free"] /\ h.count = g.count + 0 - 1
        BY <1>3, <1>6, <2>1
      <3>2. g.actors[s] # "free"
        BY <2>1
      <3> QED
        BY <1>1, <1>5, <3>1, <3>2, CountChanges
    <2>2. CASE ~owned
      <3>1. h.actors = g.actors /\ h.count = g.count
        BY <1>1, <1>6, <2>2 DEF Arenas
      <3> QED
        BY <3>1 DEF Counted
    <2> QED
      BY <2>1, <2>2
  <1> QED
    BY <1>2, <1>5, <1>6, <1>7 DEF freed, ItemAfter

ChainForms == {"none", "fired", "throw", "out", "back", "wall", "carry"}

\* One hook at a time.
Single(g) == \A s, t \in Slots : ~Is(g, s, {"none", "fired"}) /\ ~Is(g, t, {"none", "fired"}) => s = t
Hooked == {g \in Safe(ChainForms) : Single(g)}

\* With one hook alone, only the pickup can go wrong.
LEMMA HookSides ==
    ASSUME NEW g \in Safe(ChainForms), NEW h \in Arenas(ChainForms), Sound(h, ChainForms), Single(h),
           h.partner = g.partner, h.effects = g.effects, ItemKept(h)
    PROVE  h \in Hooked
  <1> DEFINE F == ChainForms
  <1>1. /\ F \cap (Freezing \cup Carrying \cup Locking) = {} /\ "eddy" \notin F /\ "bee" \notin F
        /\ CursorForms \cap F = {"back"}
    BY DEF ChainForms, Freezing, Carrying, Locking, CursorForms
  <1>2. HeldOnce(h)
    <2>1. \A i \in Slots : h.shots[i].form \notin Freezing \cup Carrying \cup Locking
      BY <1>1, FormOf
    <2>2. HeldOnce(g)
      BY DEF Safe, Sides
    <2>3. \A i \in Slots : ~Is(h, i, Locking) /\ \A e : ~Holds(h, i, e)
      BY <2>1 DEF Is, Holds
    <2> QED
      BY <2>2, <2>3 DEF HeldOnce
  <1>3. EddiesKept(h)
    BY <1>1, NoEddies
  <1>4. BeesKept(h)
    <2>1. \A i \in Slots : ~Is(h, i, {"bee"}) /\ (i \in CursorsOf(h) => ~Is(h, i, {"none", "fired"}))
      BY <1>1, FormOf DEF Is, CursorsOf
    <2>2. \A i \in CursorsOf(h) : i \in Slots
      BY DEF CursorsOf
    <2> QED
      BY <2>1, <2>2 DEF BeesKept, Single
  <1> QED
    BY <1>2, <1>3, <1>4 DEF Hooked, Safe, Sides

\* The hook's record changes, and what it carries stays carried.
LEMMA HookRecord ==
    ASSUME NEW g \in Safe(ChainForms), NEW s \in Slots, g.shots[s].form # "none",
           \A t \in Slots \ {s} : Is(g, t, {"none", "fired"}),
           NEW r \in Kids(ChainForms), g.item.taken /\ g.shots[s].form = "carry" =>
              g.shots[s].kind # g.item.kind \/ (r.form = "carry" /\ r.kind = g.item.kind),
           NEW h, h = WithShot(g, s, r)
    PROVE  h \in Hooked
  <1>1. /\ h \in Arenas(ChainForms) /\ Sound(h, ChainForms) /\ Beside(h, g)
        /\ h.shots[s] = r /\ \A i \in Slots \ {s} : h.shots[i] = g.shots[i]
    <2>1. Sound(g, ChainForms)
      BY DEF Safe
    <2> QED
      BY <2>1, RecordSound
  <1>2. Single(h)
    BY <1>1 DEF Single, Is
  <1>3. ItemKept(h)
    <2>1. h.item = g.item
      BY <1>1 DEF Beside
    <2>2. SUFFICES ASSUME g.item.taken PROVE \E t \in Slots : Is(h, t, {"carry"}) /\ h.shots[t].kind = g.item.kind
      BY <2>1 DEF ItemKept
    <2>3. PICK t \in Slots : Is(g, t, {"carry"}) /\ g.shots[t].kind = g.item.kind
      BY <2>2 DEF Safe, Sides, ItemKept
    <2>4. t = s \/ h.shots[t] = g.shots[t]
      BY <1>1
    <2> QED
      BY <1>1, <2>2, <2>3, <2>4 DEF Is
  <1> QED
    BY <1>1, <1>2, <1>3, HookSides DEF Beside

\* The hook ends, and lets go of what it carries.
LEMMA HookRetired ==
    ASSUME NEW g \in Hooked, NEW s \in Slots, g.shots[s].form # "none"
    PROVE  Retired(g, s) \in Hooked
  <1> DEFINE F == ChainForms
             h == Retired(g, s)
  <1>1. /\ Sound(g, F) /\ g \in Arenas(F) /\ Counted(g) /\ "none" \in F /\ g \in Safe(F)
    BY DEF Hooked, Safe, Sound, ChainForms
  <1> HIDE DEF h
  <1>2. /\ h \in Arenas(F) /\ Counted(h)
        /\ h.shots = [g.shots EXCEPT ![s] = NoShot]
        /\ h.actors = [g.actors EXCEPT ![s] = IF g.actors[s] = "owned" THEN "free" ELSE @]
        /\ h.partner = g.partner /\ h.effects = g.effects
        /\ h.item = ItemAfter(g, s)
    BY <1>1, RetiredFields DEF h
  <1>3. /\ h.shots[s].form = "none" /\ h.shots[s].age = "old"
        /\ \A i \in Slots \ {s} : h.shots[i] = g.shots[i] /\ h.actors[i] = g.actors[i]
        /\ h.actors[s] # "owned"
    BY <1>1, <1>2 DEF Arenas, NoShot
  <1>4. Shaped(h) /\ Owning(h) /\ Recorded(h)
    BY <1>1, <1>3 DEF Sound, Shaped, Owning, Recorded
  <1>5. Single(h)
    BY <1>3 DEF Single, Is, Hooked
  <1>6. ItemKept(h)
    <2>1. SUFFICES ASSUME h.item.taken PROVE \E t \in Slots : Is(h, t, {"carry"}) /\ h.shots[t].kind = h.item.kind
      BY DEF ItemKept
    <2>2. g.item \in [kind : AnyKind, taken : BOOLEAN]
      BY <1>1 DEF Arenas
    <2>3. h.item = g.item /\ ~(g.shots[s].form = "carry" /\ g.item.kind = g.shots[s].kind)
      BY <1>2, <2>1, <2>2 DEF ItemAfter
    <2>4. PICK t \in Slots : Is(g, t, {"carry"}) /\ g.shots[t].kind = g.item.kind
      BY <1>1, <2>1, <2>3 DEF Safe, Sides, ItemKept
    <2> QED
      BY <1>3, <2>3, <2>4 DEF Is
  <1>7. h \in Hooked
    BY <1>1, <1>2, <1>4, <1>5, <1>6, HookSides DEF Sound
  <1> QED
    BY <1>7 DEF h

\* No children.
LEMMA SpawnedNone ==
    ASSUME NEW g, NEW p
    PROVE  Spawned(g, Children(p, <<>>)) = g
  <1> DEFINE P == [m \in 0 .. 0 |-> {g}]
             none == Children(p, <<>>)
  <1>1. Len(none) = 0 /\ P[0] = {g}
    BY DEF Children
  <1> HIDE DEF P, none
  <1>2. \A i \in 1 .. 0 : \A h \in P[i - 1] : SpawnChild(h, none[i]) \in P[i]
    OBVIOUS
  <1>3. Spawned(g, none) \in P[0]
    BY <1>1, <1>2, SpawnedRuns
  <1> QED
    BY <1>1, <1>3 DEF none

\* The strike chain's tick: one hook, which carries the pickup it has taken.
LEMMA ChainSafe ==
    ASSUME NEW g \in Hooked, NEW s \in Slots, g.shots[s].form # "none"
    PROVE  ChainTick(g, s) \subseteq Hooked
  <1> DEFINE F == ChainForms
             p == g.shots[s]
             course == [throw |-> {To("out")}, wall |-> {}, carry |-> {}]
  <1>1. /\ Sound(g, F) /\ g \in Arenas(F) /\ g \in Safe(F) /\ p \in ShotRecords(F) /\ p.form \in F
    BY ShotFields, FormOf DEF Hooked, Safe, Sound
  <1>2. g \in Hooked /\ Retired(g, s) \in Hooked
    BY HookRetired
  <1>3. CASE Fresh(g, s)
    <2>1. p.form = "fired" /\ p.age = "new"
      BY <1>1, <1>3 DEF Sound, Shaped, Fresh
    <2> DEFINE refused == Others(g, s) # {}
               h == Start(g, s, "throw")
    <2>2. ~refused => h \in Hooked
      <3> DEFINE r == [p EXCEPT !.form = "throw", !.age = "born"]
      <3>1. r \in Kids(F)
        BY <1>1 DEF Kids, ShotRecords, ChainForms
      <3>2. h = WithShot(g, s, r)
        BY <1>1 DEF Start, WithShot, Arenas, ShotRecords
      <3>3. ~refused => \A t \in Slots \ {s} : Is(g, t, {"none", "fired"})
        BY DEF Others, Is
      <3> HIDE DEF r, h, refused
      <3> QED
        BY <1>1, <2>1, <3>1, <3>2, <3>3, HookRecord
    <2>3. Spawned(h, Children(h.shots[s], <<>>)) = h
      BY SpawnedNone
    <2>4. ChainTick(g, s) = {Retired(g, s)} \cup IF refused THEN {} ELSE {Spawned(h, Children(h.shots[s], <<>>))}
      <3> HIDE DEF refused, h
      <3>1. ChainTick(g, s) = Launch(g, s, refused, "throw", <<>>)
        BY <1>3, <2>1 DEF ChainTick, refused
      <3> QED
        BY <3>1 DEF Launch, h
    <2> HIDE DEF refused, h
    <2> QED
      BY <1>2, <2>2, <2>3, <2>4
  <1>4. CASE ~Fresh(g, s)
    <2>1. p.form # "fired" /\ p.age # "new"
      BY <1>1, <1>4 DEF Sound, Shaped, Fresh
    <2>2. \A t \in Slots \ {s} : Is(g, t, {"none", "fired"})
      BY <2>1 DEF Hooked, Single, Is
    <2>3. ASSUME NEW f \in {"back", "wall", "out"}, p.form # "carry" \/ g.item.kind # p.kind
          PROVE  Into(g, s, f) \in Hooked
      <3> DEFINE r == [p EXCEPT !.form = f]
                 h == Into(g, s, f)
      <3>1. r \in Kids(F)
        BY <1>1, <2>1, <2>3 DEF Kids, ShotRecords, ChainForms
      <3>2. h = WithShot(g, s, r)
        BY <2>3 DEF Into, WithShot
      <3> HIDE DEF r, h
      <3>3. h \in Hooked
        BY <1>1, <2>1, <2>2, <2>3, <3>1, <3>2, HookRecord
      <3> QED
        BY <3>3 DEF h
    <2>4. ASSUME p.form # "carry" PROVE ChainGrab(g, s) \subseteq Hooked
      <3>1. SUFFICES ASSUME ~g.item.taken
                     PROVE  [g EXCEPT !.shots[s].form = "carry", !.shots[s].kind = g.item.kind, !.item.taken = TRUE] \in Hooked
        BY DEF ChainGrab
      <3> DEFINE r == [p EXCEPT !.form = "carry", !.kind = g.item.kind]
                 k == WithShot(g, s, r)
                 h == [g EXCEPT !.shots[s].form = "carry", !.shots[s].kind = g.item.kind, !.item.taken = TRUE]
      <3>2. g.item \in [kind : AnyKind, taken : BOOLEAN] /\ g.item.kind \in AnyKind
        BY <1>1 DEF Arenas
      <3>3. r \in Kids(F) /\ r.form = "carry" /\ r.kind = g.item.kind
        BY <1>1, <2>1, <3>2 DEF Kids, ShotRecords, ChainForms
      <3>4. h = [k EXCEPT !.item.taken = TRUE]
        BY <1>1, ZenonT(60) DEF WithShot, Arenas, ShotRecords
      <3> HIDE DEF r, h, k
      <3>5. k \in Hooked
        BY <1>1, <2>1, <2>2, <2>4, <3>1, <3>3, HookRecord DEF k
      <3>6. k \in Arenas(F) /\ Sound(k, F) /\ Single(k) /\ k.shots[s] = r /\ k.item = g.item /\ k \in Safe(F)
        <4>1. k.shots[s] = r /\ k.item = g.item
          BY <1>1 DEF k, WithShot, Arenas
        <4> QED
          BY <3>5, <4>1 DEF Hooked, Safe
      <3>7. /\ h \in Arenas(F) /\ h.shots = k.shots /\ h.actors = k.actors /\ h.count = k.count
            /\ h.partner = k.partner /\ h.effects = k.effects
            /\ h.item = [g.item EXCEPT !.taken = TRUE]
        BY <3>2, <3>4, <3>6 DEF Arenas
      <3>8. Sound(h, F)
        BY <3>6, <3>7 DEF Sound, Shaped, Owning, Recorded, Counted
      <3>9. Single(h)
        BY <3>6, <3>7 DEF Single, Is
      <3>10. ItemKept(h)
        BY <3>2, <3>3, <3>6, <3>7 DEF ItemKept, Is
      <3>11. h \in Hooked
        BY <3>6, <3>7, <3>8, <3>9, <3>10, HookSides
      <3> QED
        BY <3>11 DEF h
    <2>5. p.form \in {"throw", "wall", "carry"} => Fly(g, s, course) \subseteq Hooked
      <3>1. SUFFICES ASSUME p.form \in {"throw", "wall", "carry"} PROVE Fly(g, s, course) \subseteq Hooked
        OBVIOUS
      <3> DEFINE o == To("out")
                 w == Spawned(g, Children(p, o[2]))
      <3>2. w = g /\ o[1] = "out"
        BY SpawnedNone DEF To
      <3>3. course[p.form] \subseteq {o} /\ (p.form # "throw" => course[p.form] = {})
        BY <3>1
      <3>4. Fly(g, s, course) \subseteq {g, Retired(g, s)} \cup (IF p.form = "throw" THEN {Into(g, s, "out")} ELSE {})
        <4>1. p.form # "fade"
          BY <3>1
        <4> DEFINE Led(x) == LET k == Spawned(g, Children(p, x[2]))
                             IN  IF x[1] = "gone" THEN Retired(k, s) ELSE Into(k, s, x[1])
        <4>2. Led(o) = Into(g, s, "out")
          BY <3>2
        <4>3. Fly(g, s, course) \subseteq {g, Retired(g, s)} \cup {Led(x) : x \in course[p.form]}
          <5> HIDE DEF course
          <5> QED
            BY <4>1 DEF Fly
        <4> HIDE DEF course, Led, w, o
        <4> QED
          BY <3>3, <4>2, <4>3
      <3> HIDE DEF course, o, w
      <3> QED
        BY <1>2, <2>3, <3>4
    <2>6. CASE p.form = "out"
      <3>1. ChainTick(g, s) \subseteq {g, Into(g, s, "back"), Into(g, s, "wall"), Retired(g, s)} \cup ChainGrab(g, s)
        BY <1>4, <2>6 DEF ChainTick
      <3> QED
        BY <1>2, <2>3, <2>4, <2>6, <3>1
    <2>7. CASE p.form = "back"
      <3>1. ChainTick(g, s) \subseteq {g, Retired(g, s)} \cup ChainGrab(g, s)
        BY <1>4, <2>7 DEF ChainTick
      <3> QED
        BY <1>2, <2>4, <2>7, <3>1
    <2>8. CASE p.form \in {"throw", "wall", "carry"}
      <3>1. ChainTick(g, s) = Fly(g, s, course) \/
            (g.item.kind # p.kind /\ ChainTick(g, s) = {Into(g, s, "back"), Retired(g, s)})
        <4> HIDE DEF course
        <4> QED
          BY <1>4, <2>8 DEF ChainTick, course
      <3> HIDE DEF course
      <3> QED
        BY <1>2, <2>3, <2>5, <2>8, <3>1
    <2> QED
      BY <1>1, <2>1, <2>6, <2>7, <2>8 DEF ChainForms
  <1> QED
    BY <1>3, <1>4

-----------------------------------------------------------------------------
(* The cancel *)

\* An arena whose first m slots are cleared.
Cleared(F, m) ==
    {h \in Arenas(F) : /\ Counted(h) /\ ItemKept(h)
                       /\ \A j \in Slots : j <= m => h.shots[j] = NoShot /\ h.actors[j] # "owned"}

\* The next slot is cleared.
LEMMA OneCleared ==
    ASSUME NEW F, "none" \in F, NEW m \in Nat, NEW s \in Slots, s = m + 1, NEW g \in Cleared(F, m)
    PROVE  Retired(g, s) \in Cleared(F, s)
  <1> DEFINE h == Retired(g, s)
  <1>1. g \in Arenas(F) /\ Counted(g) /\ ItemKept(g)
    BY DEF Cleared
  <1> HIDE DEF h
  <1>2. /\ h \in Arenas(F) /\ Counted(h)
        /\ h.shots = [g.shots EXCEPT ![s] = NoShot]
        /\ h.actors = [g.actors EXCEPT ![s] = IF g.actors[s] = "owned" THEN "free" ELSE @]
        /\ h.item = ItemAfter(g, s)
    BY <1>1, RetiredFields DEF h
  <1>3. /\ h.shots[s] = NoShot /\ h.actors[s] # "owned"
        /\ \A i \in Slots \ {s} : h.shots[i] = g.shots[i] /\ h.actors[i] = g.actors[i]
    BY <1>1, <1>2 DEF Arenas
  <1>4. \A j \in Slots : j <= s => j = s \/ j <= m
    BY DEF Slots
  <1>5. \A j \in Slots : j <= s => h.shots[j] = NoShot /\ h.actors[j] # "owned"
    BY <1>3, <1>4 DEF Cleared
  <1>6. ItemKept(h)
    <2>1. SUFFICES ASSUME h.item.taken PROVE \E t \in Slots : Is(h, t, {"carry"}) /\ h.shots[t].kind = h.item.kind
      BY DEF ItemKept
    <2>2. g.item \in [kind : AnyKind, taken : BOOLEAN]
      BY <1>1 DEF Arenas
    <2>3. h.item = g.item /\ ~(g.shots[s].form = "carry" /\ g.item.kind = g.shots[s].kind)
      BY <1>2, <2>1, <2>2 DEF ItemAfter
    <2>4. PICK t \in Slots : Is(g, t, {"carry"}) /\ g.shots[t].kind = g.item.kind
      BY <1>1, <2>1, <2>3 DEF ItemKept
    <2> QED
      BY <1>3, <2>3, <2>4 DEF Is
  <1>7. h \in Cleared(F, s)
    BY <1>2, <1>5, <1>6 DEF Cleared
  <1> QED
    BY <1>7 DEF h

\* Nothing is in the air, and nothing is held but by the partner.
Empty(h) ==
    /\ \A j \in Slots : h.shots[j] = NoShot /\ h.actors[j] # "owned"
    /\ \A x \in Effects : h.effects[x].target = 0
    /\ ~h.item.taken

\* An empty arena is safe for every weapon.
LEMMA EmptySafe ==
    ASSUME NEW F, NEW h \in Arenas(F), Counted(h), Empty(h)
    PROVE  h \in Safe(F)
  <1>1. \A j \in Slots : h.shots[j].form = "none" /\ h.shots[j].age = "old"
    BY DEF Empty, NoShot
  <1>2. Sound(h, F)
    BY <1>1 DEF Sound, Shaped, Owning, Recorded, Empty
  <1>3. \A j \in Slots : ~Is(h, j, Locking \cup {"eddy", "bee"} \cup CursorForms) /\ \A e : ~Holds(h, j, e)
    BY <1>1 DEF Is, Locking, CursorForms, Holds, Freezing, Carrying
  <1>4. HeldOnce(h)
    <2>1. \A e \in Foes : \A x \in Effects : h.effects[x].target # e
      BY DEF Empty, Foes
    <2>2. h.partner \in SUBSET Foes
      BY DEF Arenas
    <2>3. \A i \in Slots : ~Is(h, i, Locking)
      BY <1>3 DEF Is
    <2> QED
      BY <1>3, <2>1, <2>2, <2>3 DEF HeldOnce
  <1>5. EddiesKept(h)
    BY <1>3 DEF EddiesKept, Is
  <1>6. BeesKept(h)
    BY <1>3 DEF BeesKept, CursorsOf, Is
  <1>7. ItemKept(h)
    BY DEF ItemKept, Empty
  <1> QED
    BY <1>2, <1>4, <1>5, <1>6, <1>7 DEF Safe, Sides

\* The weapons' cancel empties the arena, whatever the slots were (MmxWeaponsCancelShots).
LEMMA CancelledEmpty ==
    ASSUME NEW F, "none" \in F, NEW g \in Arenas(F), Counted(g), ItemKept(g), NEW G, "none" \in G
    PROVE  CancelShots(g) \in Arenas(G) /\ Counted(CancelShots(g)) /\ Empty(CancelShots(g))
  <1> DEFINE T == Arenas(F)
             n == SlotCount
             P == [i \in 0 .. n |-> Cleared(F, i)]
             One(h, i) == Retired(h, i)
             step == [i \in 1 .. n |-> [h \in T |-> One(h, i)]]
             after == CHOOSE f : f = [i \in 0 .. n |-> IF i = 0 THEN g ELSE One(f[i - 1], i)]
  <1>0. \A i \in 0 .. n : P[i] \subseteq T
    BY DEF Cleared
  <1>1. g \in P[0] /\ n \in Nat
    <2>1. \A j \in Slots : ~(j <= 0)
      BY DEF Slots
    <2> QED
      BY <2>1, PoolAssumption DEF Cleared
  <1>2. ASSUME NEW i \in 1 .. n, NEW h \in P[i - 1] PROVE One(h, i) \in P[i]
    <2>1. i - 1 \in Nat /\ i = (i - 1) + 1 /\ i \in Slots /\ i - 1 \in 0 .. n /\ i \in 0 .. n
      BY <1>1 DEF Slots
    <2> QED
      BY <2>1, OneCleared
  <1>3. Through(Retired, g, SlotCount) = after[n]
    BY Zenon DEF Through
  <1> HIDE DEF T, One
  <1>4. PICK f : Runs(f, step, n, g) /\ Within(f, n, P)
    <2>1. g \in P[0] /\ Leading(step, n, P)
      <3>1. ASSUME NEW i \in 1 .. n, NEW h \in P[i - 1] PROVE step[i][h] \in P[i]
        <4>1. i - 1 \in 0 .. n
          BY <1>1
        <4>2. h \in T
          BY <1>0, <4>1
        <4>3. step[i][h] = One(h, i)
          BY <4>2
        <4> QED
          BY <1>2, <4>3
      <3> HIDE DEF P, step, n
      <3> QED
        BY <1>1, <3>1 DEF Leading
    <2> HIDE DEF P, step, n
    <2> QED
      BY <1>1, <2>1, LoopRuns
  <1>5. f = [i \in 0 .. n |-> IF i = 0 THEN g ELSE One(f[i - 1], i)]
    <2>1. ASSUME NEW i \in 1 .. n PROVE step[i][f[i - 1]] = One(f[i - 1], i)
      <3>1. i - 1 \in 0 .. n
        BY <1>1
      <3>2. f[i - 1] \in P[i - 1]
        <4> HIDE DEF P
        <4> QED
          BY <1>4, <3>1 DEF Within
      <3>3. f[i - 1] \in T
        <4> HIDE DEF P
        <4> QED
          BY <1>0, <3>1, <3>2
      <3> QED
        BY <3>3
    <2> HIDE DEF step, P
    <2> QED
      BY <1>1, <1>4, <2>1 DEF Runs
  <1>6. after = [i \in 0 .. n |-> IF i = 0 THEN g ELSE One(after[i - 1], i)]
    BY <1>5
  <1> HIDE DEF after
  <1>7. after[n] \in P[n]
    <2>1. ASSUME NEW i \in 1 .. n, after[i - 1] \in P[i - 1] PROVE after[i] \in P[i]
      <3> HIDE DEF P
      <3>1. after[i] = One(after[i - 1], i)
        BY <1>1, <1>6
      <3> QED
        BY <1>2, <2>1, <3>1
    <2>2. after[0] \in P[0]
      <3> HIDE DEF P
      <3> QED
        BY <1>1, <1>6
    <2> HIDE DEF P, n
    <2> QED
      BY <1>1, <2>1, <2>2, LoopKeeps
  <1> DEFINE k == after[n]
             h == CancelShots(g)
  <1>8. k \in Cleared(F, n)
    BY <1>1, <1>7
  <1>9. h = [k EXCEPT !.effects = EmptyArena.effects, !.token = 0]
    BY <1>3 DEF CancelShots
  <1> HIDE DEF k, h
  <1>10. \A j \in Slots : k.shots[j] = NoShot /\ k.actors[j] # "owned"
    BY <1>8 DEF Cleared, Slots
  <1>11. k \in Arenas(F) /\ Counted(k) /\ ~k.item.taken
    <2>1. \A j \in Slots : ~Is(k, j, {"carry"})
      BY <1>10 DEF Is, NoShot
    <2> QED
      BY <1>8, <2>1 DEF Cleared, ItemKept
  <1>12. EmptyArena.effects = [x \in Effects |-> NoVictim]
    BY DEF EmptyArena
  <1>13. EmptyArena.effects \in [Effects -> [target : Int, kind : AnyKind, clock : Int]]
    BY <1>12 DEF NoVictim, AnyKind
  <1>14. /\ h.shots = k.shots /\ h.actors = k.actors /\ h.count = k.count /\ h.item = k.item
         /\ h.effects = EmptyArena.effects
    BY <1>9, <1>11 DEF Arenas
  <1>15. h \in Arenas(F)
    <2> DEFINE E == EmptyArena.effects
               k1 == [k EXCEPT !.effects = E]
    <2>1. h = [k1 EXCEPT !.token = 0]
      BY <1>9, <1>11 DEF Arenas
    <2>2. E \in [Effects -> [target : Int, kind : AnyKind, clock : Int]]
      BY <1>13
    <2> HIDE DEF E
    <2>3. k1 \in Arenas(F)
      BY <1>11, <2>2 DEF Arenas
    <2>4. /\ h.shots = k1.shots /\ h.actors = k1.actors /\ h.count = k1.count /\ h.enemies = k1.enemies
          /\ h.effects = k1.effects /\ h.partner = k1.partner /\ h.item = k1.item /\ h.token = 0
          /\ h = [shots |-> h.shots, actors |-> h.actors, count |-> h.count, enemies |-> h.enemies,
                  effects |-> h.effects, partner |-> h.partner, item |-> h.item, token |-> h.token]
      <3> HIDE DEF k1
      <3> QED
        BY <2>1, <2>3 DEF Arenas
    <2> HIDE DEF k1
    <2> QED
      BY <2>3, <2>4 DEF Arenas
  <1>16. h \in Arenas(G)
    <2>1. h.shots \in [Slots -> ShotRecords(G)]
      <3>1. NoShot \in ShotRecords(G)
        BY NoShotRecord
      <3>2. h.shots = [j \in Slots |-> NoShot]
        BY <1>10, <1>14, <1>15 DEF Arenas
      <3> QED
        BY <3>1, <3>2
    <2> QED
      BY <1>15, <2>1 DEF Arenas
  <1>17. Counted(h) /\ Empty(h)
    BY <1>10, <1>11, <1>12, <1>14 DEF Counted, Empty, NoVictim
  <1> QED
    BY <1>16, <1>17 DEF h

\* After the cancel the arena suits every weapon.
LEMMA CancelledSafe ==
    ASSUME NEW F, "none" \in F, NEW g \in Arenas(F), Counted(g), ItemKept(g), NEW G, "none" \in G
    PROVE  CancelShots(g) \in Safe(G) /\ \A s \in Slots : CancelShots(g).shots[s] = NoShot
  <1>1. CancelShots(g) \in Arenas(G) /\ Counted(CancelShots(g)) /\ Empty(CancelShots(g))
    BY CancelledEmpty
  <1>2. CancelShots(g) \in Safe(G)
    BY <1>1, EmptySafe
  <1> QED
    BY <1>1, <1>2 DEF Empty

-----------------------------------------------------------------------------
(* All the weapons *)

\* The forms of each weapon's shots.
FormsOf(w) ==
    CASE w = "bomb" -> BombForms
      [] w = "well" -> PitForms
      [] w = "crystal" -> CrystalForms
      [] w = "bubble" -> BubbleForms
      [] w = "silk" -> SilkForms
      [] w = "chain" -> ChainForms
      [] w = "mine" -> MagnetForms
      [] w = "burner" -> BurnerForms
      [] w = "wheel" -> WheelForms
      [] w = "slicer" -> SonicForms
      [] w = "acid" -> AcidForms
      [] w = "ray" -> RayForms
      [] w = "frost" -> FrostForms
      [] w = "fang" -> FangForms
      [] w = "thunder" -> TriadForms
      [] w = "blade" -> BladeForms
      [] OTHER -> {"none"}
WeaponNames == {"crystal", "bomb", "well", "chain", "bubble", "silk", "mine", "burner",
                "wheel", "slicer", "acid", "ray", "frost", "fang", "thunder", "blade"}

\* What holds while weapon w plays, and what is left of it between a fall or a change
\* of stage and the player's next tick.
Kept(w) == {g \in Safe(FormsOf(w)) : w = "chain" => Single(g)}
Loose(F) == {g \in Arenas(F) : Counted(g) /\ HeldOnce(g) /\ ItemKept(g)}

\* Which weapon has which form.
LEMMA FormsKnown ==
    ASSUME NEW w \in WeaponNames \cup {"buster"}
    PROVE  /\ "none" \in FormsOf(w) /\ (w # "buster" => "fired" \in FormsOf(w))
           /\ ("eddy" \in FormsOf(w) => w = "burner")
           /\ ("time" \in FormsOf(w) => w = "crystal") /\ ("crystal" \in FormsOf(w) => w = "crystal")
           /\ ("bomb" \in FormsOf(w) => w = "bomb") /\ ("bee" \in FormsOf(w) => w = "bomb")
           /\ ("carry" \in FormsOf(w) => w = "chain") /\ (w = "chain" => FormsOf(w) = ChainForms)
           /\ (w = "crystal" => FormsOf(w) = CrystalForms) /\ (w = "bomb" => FormsOf(w) = BombForms)
  BY DEF FormsOf, WeaponNames, BombForms, PitForms, CrystalForms, BubbleForms, SilkForms, ChainForms, MagnetForms,
     BurnerForms, WheelForms, SonicForms, AcidForms, RayForms, FrostForms, FangForms, TriadForms, BladeForms, WellForms

\* What Kept says, part by part.
LEMMA KeptLoose ==
    ASSUME NEW w, NEW g \in Kept(w)
    PROVE  g \in Loose(FormsOf(w)) /\ Sound(g, FormsOf(w)) /\ g \in Arenas(FormsOf(w)) /\ Sides(g) /\ g \in Safe(FormsOf(w))
  BY DEF Kept, Loose, Safe, Sound, Sides

\* A change that leaves the shots themselves alone.
LEMMA SameShotsKept ==
    ASSUME NEW w, NEW g \in Kept(w), NEW h \in Safe(FormsOf(w)), h.shots = g.shots
    PROVE  h \in Kept(w)
  BY DEF Kept, Single, Is

\* A new frame: the records born in the last one have aged.
LEMMA AgedKept ==
    ASSUME NEW w, NEW g \in Kept(w)
    PROVE  Aged(g) \in Kept(w)
  <1> DEFINE F == FormsOf(w)
             sh == [s \in Slots |-> IF g.shots[s].age = "born" THEN [g.shots[s] EXCEPT !.age = "old"] ELSE g.shots[s]]
             h == Aged(g)
  <1>1. Sound(g, F) /\ g \in Arenas(F) /\ g \in Safe(F) /\ g.shots \in [Slots -> ShotRecords(F)]
    BY KeptLoose DEF Arenas
  <1>2. h = [g EXCEPT !.shots = sh]
    BY <1>1 DEF Aged, Arenas
  <1>3. \A s \in Slots : /\ sh[s] \in ShotRecords(F)
                         /\ sh[s].form = g.shots[s].form /\ sh[s].target = g.shots[s].target
                         /\ sh[s].quad = g.shots[s].quad /\ sh[s].kind = g.shots[s].kind
                         /\ (sh[s].age = "new" <=> g.shots[s].age = "new")
    BY <1>1 DEF ShotRecords
  <1>4. sh \in [Slots -> ShotRecords(F)]
    BY <1>3
  <1> HIDE DEF sh, h
  <1>5. /\ h \in Arenas(F) /\ h.shots = sh /\ h.actors = g.actors /\ h.count = g.count
        /\ h.partner = g.partner /\ h.effects = g.effects /\ h.item = g.item
    BY <1>1, <1>2, <1>4 DEF Arenas
  <1>6. Shaped(h) /\ Counted(h) /\ Owning(h) /\ Recorded(h)
    BY <1>1, <1>3, <1>5 DEF Sound, Shaped, Counted, Owning, Recorded
  <1>7. \A i \in Slots : Mild(g.shots[i], h.shots[i])
    BY <1>3, <1>5 DEF Mild
  <1>8. h \in Calm(g, F)
    BY <1>5, <1>6, <1>7 DEF Calm, Beside, Sound
  <1>9. h \in Safe(F)
    BY <1>1, <1>8, CalmSafe
  <1>10. w = "chain" => Single(h)
    BY <1>3, <1>5 DEF Kept, Single, Is
  <1>11. h \in Kept(w)
    BY <1>9, <1>10 DEF Kept
  <1> QED
    BY <1>11 DEF h

\* The victims' effects go on.
LEMMA EffectsKept ==
    ASSUME NEW w, NEW g \in Kept(w)
    PROVE  EffectsTicked(g) \in Kept(w)
  <1>1. g \in Safe(FormsOf(w))
    BY KeptLoose
  <1>2. EffectsTicked(g) \in Safe(FormsOf(w)) /\ EffectsTicked(g).shots = g.shots
    BY <1>1, EffectsTickedSafe
  <1> QED
    BY <1>2, SameShotsKept

\* The player's hook of silk: the gathered scrap grows or is thrown.
LEMMA GatheredKept ==
    ASSUME weapon \in WeaponNames \cup {"buster"}, NEW g \in Kept(weapon), NEW held
    PROVE  SilkPlayerTick(g, held) \subseteq Kept(weapon)
  <1>1. SUFFICES ASSUME weapon = "silk" PROVE SilkCreatePieces(g, "gathered") \in Kept(weapon)
    BY DEF SilkPlayerTick
  <1>2. FormsOf(weapon) = SilkForms
    BY <1>1 DEF FormsOf
  <1>3. "none" \in SilkForms /\ "gathered" \in Plain(SilkForms)
    BY DEF SilkForms, Plain, Special, Freezing, Carrying, CursorForms, Locking
  <1>4. Sound(g, SilkForms) /\ g \in Safe(SilkForms)
    BY <1>2, KeptLoose
  <1>5. SilkCreatePieces(g, "gathered") \in Safe(SilkForms)
    BY <1>3, <1>4, PiecesCalm, CalmSafe
  <1> QED
    BY <1>1, <1>2, <1>5 DEF Kept

\* With no slot counted, no slot has a record.
LEMMA NoneCounted ==
    ASSUME NEW F, NEW g, Sound(g, F), g.count < 1
    PROVE  \A s \in Slots : g.shots[s].form = "none"
  <1> DEFINE A == {i \in Slots : g.actors[i] # "free"}
  <1>1. IsFiniteSet(A)
    BY SlotsFinite, FS_Subset
  <1>2. Cardinality(A) \in Nat /\ g.count = Cardinality(A)
    BY <1>1, FS_CardinalityType DEF Sound, Counted
  <1>3. A = {}
    <2> HIDE DEF A
    <2>1. Cardinality(A) = 0
      BY <1>2
    <2> QED
      BY <1>1, <2>1, FS_EmptySet
  <1> QED
    BY <1>3 DEF Sound, Recorded

\* The guest fires: a slot is claimed and its record made (SelectShot).
LEMMA SelectKept ==
    ASSUME weapon \in WeaponNames \cup {"buster"}, NEW g \in Kept(weapon)
    PROVE  SelectShot(g) \subseteq Kept(weapon)
  <1> DEFINE w == weapon
             F == FormsOf(w)
             s == Least(FreeSlots(g))
             a == IF w # "buster" THEN "owned" ELSE "native"
             rec(c) == IF w # "buster" THEN NewShot(c) ELSE g.shots[s]
             Shot(c) == [g EXCEPT !.actors[s] = a, !.count = @ + 1, !.shots[s] = rec(c)]
  <1>1. Sound(g, F) /\ g \in Arenas(F) /\ Sides(g) /\ g \in Safe(F)
    BY KeptLoose
  <1>2. SUFFICES ASSUME ~(g.count >= Limit), FreeSlots(g) # {}, NEW c \in BOOLEAN
                 PROVE  Shot(c) \in Kept(w)
    <2>1. SelectShot(g) \subseteq {g} \cup (IF g.count >= Limit \/ FreeSlots(g) = {} THEN {} ELSE {Shot(c) : c \in BOOLEAN})
      BY DEF SelectShot
    <2> HIDE DEF Shot
    <2> QED
      BY <2>1
  <1>3. s \in Slots /\ g.actors[s] = "free"
    <2>1. FreeSlots(g) \in SUBSET Nat
      BY SlotsFinite DEF FreeSlots
    <2>2. s \in FreeSlots(g)
      BY <1>2, <2>1, LeastNatural
    <2> QED
      BY <2>2 DEF FreeSlots
  <1>4. g.shots[s].form = "none"
    BY <1>1, <1>3 DEF Sound, Recorded
  <1> DEFINE h == Shot(c)
             r == rec(c)
             k == g.count + 1
  <1>5. /\ r \in ShotRecords(F) /\ r.form = (IF w # "buster" THEN "fired" ELSE "none")
        /\ (r.form = "fired" <=> r.age = "new") /\ (r.form = "fired" => r.quad = 0)
    <2>1. CASE w # "buster"
      <3>1. "fired" \in F /\ "none" \in F
        BY <2>1, FormsKnown
      <3>2. r = [form |-> "fired", charged |-> c, age |-> "new", clock |-> 0,
                 target |-> 0, kind |-> "none", quad |-> 0]
        BY <2>1 DEF NewShot, NoShot
      <3>3. r.form = "fired" /\ r.age = "new" /\ r.quad = 0
        BY <3>2
      <3>4. r \in ShotRecords(F)
        <4> HIDE DEF r, F
        <4> QED
          BY <3>1, <3>2 DEF ShotRecords, AnyKind
      <3> QED
        BY <2>1, <3>3, <3>4
    <2>2. CASE w = "buster"
      <3>1. r = g.shots[s] /\ g.shots[s] \in ShotRecords(F)
        BY <1>1, <1>3, <2>2, ShotFields
      <3>2. g.shots[s].age # "new"
        BY <1>1, <1>3, <1>4 DEF Sound, Shaped
      <3> HIDE DEF r
      <3> QED
        BY <1>4, <2>2, <3>1, <3>2
    <2> QED
      BY <2>1, <2>2
  <1>6. h = [g EXCEPT !.actors[s] = a, !.count = k, !.shots[s] = r]
    OBVIOUS
  <1>7. k \in Int /\ a \in {"owned", "native"}
    BY <1>1 DEF Arenas
  <1> HIDE DEF h, r, k, rec, Shot, s, F
  <1>8. /\ h \in Arenas(F) /\ h.shots = [g.shots EXCEPT ![s] = r]
        /\ h.actors = [g.actors EXCEPT ![s] = a] /\ h.count = k
        /\ h.partner = g.partner /\ h.effects = g.effects /\ h.item = g.item
    <2> DEFINE g1 == [g EXCEPT !.actors[s] = a]
               g2 == [g1 EXCEPT !.count = k]
    <2>1. h = WithShot(g2, s, r)
      BY <1>1, <1>6 DEF Arenas, WithShot
    <2>2. g1 \in Arenas(F) /\ g1.shots = g.shots /\ g1.actors = [g.actors EXCEPT ![s] = a]
          /\ g1.partner = g.partner /\ g1.effects = g.effects /\ g1.item = g.item
      BY <1>1, <1>7 DEF Arenas
    <2> HIDE DEF g1
    <2>3. g2 \in Arenas(F) /\ g2.shots = g.shots /\ g2.actors = [g.actors EXCEPT ![s] = a] /\ g2.count = k
          /\ g2.partner = g.partner /\ g2.effects = g.effects /\ g2.item = g.item
      BY <1>7, <2>2 DEF Arenas
    <2> HIDE DEF g2
    <2>4. h \in Arenas(F)
      BY <1>3, <1>5, <2>1, <2>3, ShotPut
    <2>5. h.shots = [g2.shots EXCEPT ![s] = r] /\ h.actors = g2.actors /\ h.count = g2.count
          /\ h.partner = g2.partner /\ h.effects = g2.effects /\ h.item = g2.item
      BY <2>1, <2>3 DEF Arenas, WithShot
    <2> QED
      BY <2>3, <2>4, <2>5
  <1>9. /\ h.shots[s] = r /\ h.actors[s] = a
        /\ \A i \in Slots \ {s} : h.shots[i] = g.shots[i] /\ h.actors[i] = g.actors[i]
    BY <1>1, <1>3, <1>8 DEF Arenas
  <1>10. Counted(h)
    <2>1. h.count = g.count + 1 - 0
      BY <1>1, <1>8 DEF k, Arenas
    <2> QED
      BY <1>1, <1>3, <1>7, <1>8, <2>1, CountChanges DEF Sound
  <1>11. Shaped(h) /\ Owning(h) /\ Recorded(h)
    BY <1>1, <1>3, <1>5, <1>9 DEF Sound, Shaped, Owning, Recorded
  <1>12. r.form \notin Freezing \cup Carrying \cup Locking \cup CursorForms \cup {"bee", "carry"}
    BY <1>5 DEF Freezing, Carrying, Locking, CursorForms
  <1>13. HeldOnce(h)
    <2>1. HeldOnce(g) /\ Beside(h, g)
      BY <1>1, <1>8 DEF Sides, Beside
    <2>2. \A i \in Slots : h.shots[i] = g.shots[i] \/ h.shots[i].form \notin Freezing \cup Carrying \cup Locking
      BY <1>9, <1>12
    <2> QED
      BY <2>1, <2>2, HeldSame
  <1>14. EddiesKept(h)
    <2>1. CASE w = "burner"
      <3>1. g.count < 1
        BY <1>1, <1>2, <2>1 DEF Limit, Arenas
      <3>2. \A i \in Slots : g.shots[i].form = "none"
        BY <1>1, <3>1, NoneCounted
      <3>3. \A i \in Slots : ~Is(h, i, {"eddy"})
        BY <1>5, <1>9, <3>2 DEF Is
      <3> QED
        BY <3>3 DEF EddiesKept
    <2>2. CASE w # "burner"
      <3>1. "eddy" \notin F
        BY <2>2, FormsKnown DEF F
      <3> QED
        BY <1>8, <3>1, NoEddies
    <2> QED
      BY <2>1, <2>2
  <1>15. BeesKept(h)
    <2>1. \A i \in Slots : \/ h.shots[i] = g.shots[i]
                           \/ /\ h.shots[i].form \notin CursorForms \cup {"bee"}
                              /\ g.shots[i].form # "busy"
      BY <1>4, <1>9, <1>12
    <2> QED
      BY <1>1, <2>1, BeesSame DEF Sides
  <1>16. ItemKept(h)
    BY <1>1, <1>4, <1>8, <1>9 DEF Sides, ItemKept, Is
  <1>17. w = "chain" => Single(h)
    BY <1>5, <1>9 DEF Kept, Single, Is
  <1>18. h \in Kept(w)
    BY <1>8, <1>10, <1>11, <1>13, <1>14, <1>15, <1>16, <1>17 DEF Kept, Safe, Sound, Sides, F
  <1> QED
    BY <1>18 DEF h

\* A slot of the host's own has its record ticked by the weapon it was fired with.
LEMMA OwnTickKept ==
    ASSUME weapon \in WeaponNames \cup {"buster"}, holding \in BOOLEAN,
           NEW g \in Kept(weapon), NEW s \in Slots, g.actors[s] = "owned", NEW seen
    PROVE  Ticked(g, s, seen) \subseteq Kept(weapon)
  <1> DEFINE F == FormsOf(weapon)
             held == holding
  <1>1. Sound(g, F) /\ g \in Arenas(F) /\ g \in Safe(F) /\ g.shots[s].form # "none"
    BY KeptLoose DEF Sound, Owning
  <1>2. weapon # "buster"
    <2>1. g.shots[s].form \in F
      BY <1>1, FormOf
    <2>2. F = {"none"} \/ weapon # "buster"
      BY DEF FormsOf
    <2> QED
      BY <1>1, <2>1, <2>2
  <1>3. ~Is(g, s, {"none"})
    BY <1>1 DEF Is
  <1>4. CASE weapon = "bubble"
    <2>1. F = BubbleForms /\ Ticked(g, s, seen) = BubbleTick(g, s)
      BY <1>3, <1>4 DEF FormsOf, Ticked
    <2>2. BubbleTick(g, s) \subseteq Calm(g, BubbleForms)
      BY <1>1, <2>1, BubbleCalm
    <2>3. BubbleTick(g, s) \subseteq Safe(BubbleForms)
      BY <1>1, <2>1, <2>2, CalmSafe
    <2> QED
      BY <1>4, <2>1, <2>3 DEF Kept
  <1>5. CASE weapon = "mine"
    <2>1. F = MagnetForms /\ Ticked(g, s, seen) = MagnetTick(g, s)
      BY <1>3, <1>5 DEF FormsOf, Ticked
    <2>2. MagnetTick(g, s) \subseteq Calm(g, MagnetForms)
      BY <1>1, <2>1, MagnetCalm
    <2>3. MagnetTick(g, s) \subseteq Safe(MagnetForms)
      BY <1>1, <2>1, <2>2, CalmSafe
    <2> QED
      BY <1>5, <2>1, <2>3 DEF Kept
  <1>6. CASE weapon = "silk"
    <2>1. F = SilkForms /\ Ticked(g, s, seen) = SilkTick(g, s, held)
      BY <1>3, <1>6 DEF FormsOf, Ticked
    <2>2. SilkTick(g, s, held) \subseteq Calm(g, SilkForms)
      BY <1>1, <2>1, SilkCalm
    <2>3. SilkTick(g, s, held) \subseteq Safe(SilkForms)
      BY <1>1, <2>1, <2>2, CalmSafe
    <2> QED
      BY <1>6, <2>1, <2>3 DEF Kept
  <1>7. CASE weapon = "wheel"
    <2>1. F = WheelForms /\ Ticked(g, s, seen) = WheelTick(g, s)
      BY <1>3, <1>7 DEF FormsOf, Ticked
    <2>2. WheelTick(g, s) \subseteq Calm(g, WheelForms)
      BY <1>1, <2>1, WheelCalm
    <2>3. WheelTick(g, s) \subseteq Safe(WheelForms)
      BY <1>1, <2>1, <2>2, CalmSafe
    <2> QED
      BY <1>7, <2>1, <2>3 DEF Kept
  <1>8. CASE weapon = "slicer"
    <2>1. F = SonicForms /\ Ticked(g, s, seen) = SonicTick(g, s)
      BY <1>3, <1>8 DEF FormsOf, Ticked
    <2>2. SonicTick(g, s) \subseteq Calm(g, SonicForms)
      BY <1>1, <2>1, SonicCalm
    <2>3. SonicTick(g, s) \subseteq Safe(SonicForms)
      BY <1>1, <2>1, <2>2, CalmSafe
    <2> QED
      BY <1>8, <2>1, <2>3 DEF Kept
  <1>9. CASE weapon = "acid"
    <2>1. F = AcidForms /\ Ticked(g, s, seen) = AcidTick(g, s)
      BY <1>3, <1>9 DEF FormsOf, Ticked
    <2>2. AcidTick(g, s) \subseteq Calm(g, AcidForms)
      BY <1>1, <2>1, AcidCalm
    <2>3. AcidTick(g, s) \subseteq Safe(AcidForms)
      BY <1>1, <2>1, <2>2, CalmSafe
    <2> QED
      BY <1>9, <2>1, <2>3 DEF Kept
  <1>10. CASE weapon = "ray"
    <2>1. F = RayForms /\ Ticked(g, s, seen) = RayTick(g, s)
      BY <1>3, <1>10 DEF FormsOf, Ticked
    <2>2. RayTick(g, s) \subseteq Calm(g, RayForms)
      BY <1>1, <2>1, RayCalm
    <2>3. RayTick(g, s) \subseteq Safe(RayForms)
      BY <1>1, <2>1, <2>2, CalmSafe
    <2> QED
      BY <1>10, <2>1, <2>3 DEF Kept
  <1>11. CASE weapon = "frost"
    <2>1. F = FrostForms /\ Ticked(g, s, seen) = FrostTick(g, s)
      BY <1>3, <1>11 DEF FormsOf, Ticked
    <2>2. FrostTick(g, s) \subseteq Calm(g, FrostForms)
      BY <1>1, <2>1, FrostCalm
    <2>3. FrostTick(g, s) \subseteq Safe(FrostForms)
      BY <1>1, <2>1, <2>2, CalmSafe
    <2> QED
      BY <1>11, <2>1, <2>3 DEF Kept
  <1>12. CASE weapon = "fang"
    <2>1. F = FangForms /\ Ticked(g, s, seen) = FangTick(g, s)
      BY <1>3, <1>12 DEF FormsOf, Ticked
    <2>2. FangTick(g, s) \subseteq Calm(g, FangForms)
      BY <1>1, <2>1, FangCalm
    <2>3. FangTick(g, s) \subseteq Safe(FangForms)
      BY <1>1, <2>1, <2>2, CalmSafe
    <2> QED
      BY <1>12, <2>1, <2>3 DEF Kept
  <1>13. CASE weapon = "thunder"
    <2>1. F = TriadForms /\ Ticked(g, s, seen) = TriadTick(g, s)
      BY <1>3, <1>13 DEF FormsOf, Ticked
    <2>2. TriadTick(g, s) \subseteq Calm(g, TriadForms)
      BY <1>1, <2>1, TriadCalm
    <2>3. TriadTick(g, s) \subseteq Safe(TriadForms)
      BY <1>1, <2>1, <2>2, CalmSafe
    <2> QED
      BY <1>13, <2>1, <2>3 DEF Kept
  <1>14. CASE weapon = "blade"
    <2>1. F = BladeForms /\ Ticked(g, s, seen) = BladeTick(g, s)
      BY <1>3, <1>14 DEF FormsOf, Ticked
    <2>2. BladeTick(g, s) \subseteq Calm(g, BladeForms)
      BY <1>1, <2>1, BladeCalm
    <2>3. BladeTick(g, s) \subseteq Safe(BladeForms)
      BY <1>1, <2>1, <2>2, CalmSafe
    <2> QED
      BY <1>14, <2>1, <2>3 DEF Kept
  <1>15. CASE weapon = "crystal"
    <2>1. F = CrystalForms /\ Ticked(g, s, seen) = CrystalTick(g, s)
      BY <1>3, <1>15 DEF FormsOf, Ticked
    <2>2. CrystalTick(g, s) \subseteq Calm(g, CrystalForms)
      BY <1>1, <2>1, CrystalCalm
    <2>3. CrystalTick(g, s) \subseteq Safe(CrystalForms)
      BY <1>1, <2>1, <2>2, CalmSafe
    <2> QED
      BY <1>15, <2>1, <2>3 DEF Kept
  <1>16. CASE weapon = "burner"
    <2>1. F = BurnerForms /\ Ticked(g, s, seen) = SpeedTick(g, s)
      BY <1>3, <1>16 DEF FormsOf, Ticked
    <2>3. SpeedTick(g, s) \subseteq Safe(BurnerForms)
      BY <1>1, <2>1, SpeedSafe
    <2> QED
      BY <1>16, <2>1, <2>3 DEF Kept
  <1>17. CASE weapon = "bomb"
    <2>1. F = BombForms /\ Ticked(g, s, seen) = ParasiticTick(g, s, held, seen)
      BY <1>3, <1>17 DEF FormsOf, Ticked
    <2>3. ParasiticTick(g, s, held, seen) \subseteq Safe(BombForms)
      BY <1>1, <2>1, ParasiticSafe
    <2> QED
      BY <1>17, <2>1, <2>3 DEF Kept
  <1>18. CASE weapon = "well"
    <2>1. F = PitForms /\ Ticked(g, s, seen) = GravityTick(g, s, seen)
      BY <1>3, <1>18 DEF FormsOf, Ticked
    <2>3. GravityTick(g, s, seen) \subseteq Safe(PitForms)
      BY <1>1, <2>1, GravitySafe
    <2> QED
      BY <1>18, <2>1, <2>3 DEF Kept
  <1>19. CASE weapon = "chain"
    <2>1. F = ChainForms /\ Ticked(g, s, seen) = ChainTick(g, s)
      BY <1>3, <1>19 DEF FormsOf, Ticked
    <2>2. g \in Hooked
      BY <1>1, <1>19, <2>1 DEF Kept, Hooked
    <2>3. ChainTick(g, s) \subseteq Hooked
      BY <1>1, <2>2, ChainSafe
    <2> QED
      BY <1>19, <2>1, <2>3 DEF Kept, Hooked
  <1> QED
    BY <1>2, <1>4, <1>5, <1>6, <1>7, <1>8, <1>9, <1>10, <1>11, <1>12, <1>13, <1>14, <1>15, <1>16, <1>17, <1>18, <1>19 DEF WeaponNames

\* A slot's tick, whatever is in it.
LEMMA TickedKept ==
    ASSUME weapon \in WeaponNames \cup {"buster"}, holding \in BOOLEAN,
           NEW g \in Kept(weapon), NEW s \in Slots, NEW seen
    PROVE  Ticked(g, s, seen) \subseteq Kept(weapon)
  <1>1. CASE g.actors[s] = "owned"
    BY <1>1, OwnTickKept
  <1>2. CASE g.actors[s] # "owned"
    <2> DEFINE F == FormsOf(weapon)
               h == WithShot(g, s, NoShot)
    <2>1. Sound(g, F) /\ g \in Arenas(F) /\ g \in Safe(F) /\ "none" \in F
      BY KeptLoose, FormsKnown
    <2>2. Ticked(g, s, seen) = {h}
      BY <1>2 DEF Ticked, WithShot
    <2> HIDE DEF h
    <2>3. g.shots[s].form = "none"
      BY <1>2, <2>1 DEF Sound, Recorded
    <2>4. h \in Arenas(F)
      BY <2>1, NoShotRecord, ShotPut DEF h
    <2>5. /\ h.actors = g.actors /\ h.count = g.count /\ Beside(h, g)
          /\ h.shots = [g.shots EXCEPT ![s] = NoShot]
      BY <2>1 DEF h, WithShot, Arenas, Beside
    <2>6. /\ h.shots[s].form = "none" /\ h.shots[s].age = "old"
          /\ \A i \in Slots \ {s} : h.shots[i] = g.shots[i]
      BY <2>1, <2>5 DEF Arenas, NoShot
    <2>7. Sound(h, F)
      BY <2>1, <2>3, <2>4, <2>5, <2>6 DEF Sound, Shaped, Counted, Owning, Recorded
    <2>8. h \in Calm(g, F)
      <3>1. \A i \in Slots : Mild(g.shots[i], h.shots[i])
        BY <2>3, <2>6 DEF Mild, Special, Freezing, Carrying, CursorForms, Locking
      <3> QED
        BY <2>4, <2>5, <2>7, <3>1 DEF Calm
    <2>9. h \in Safe(F)
      BY <2>1, <2>8, CalmSafe
    <2>10. weapon = "chain" => Single(h)
      BY <2>6 DEF Kept, Single, Is
    <2> QED
      BY <2>2, <2>9, <2>10 DEF Kept
  <1> QED
    BY <1>1, <1>2

\* The ticks of all the slots, in their order.
LEMMA SlotTicksKept ==
    ASSUME weapon \in WeaponNames \cup {"buster"}, holding \in BOOLEAN, arena \in Kept(weapon), NEW seen
    PROVE  SlotTicks(seen) \subseteq Kept(weapon)
  <1> DEFINE T == SUBSET Kept(weapon)
             n == SlotCount
             g == {arena}
             P == [i \in 0 .. n |-> T]
             One(h, i) == UNION {Ticked(k, i, seen) : k \in h}
             step == [i \in 1 .. n |-> [h \in T |-> One(h, i)]]
             after == CHOOSE f : f = [i \in 0 .. n |-> IF i = 0 THEN g ELSE One(f[i - 1], i)]
  <1>1. g \in T /\ n \in Nat
    BY PoolAssumption
  <1>2. ASSUME NEW i \in 1 .. n, NEW h \in T PROVE One(h, i) \in T
    BY TickedKept DEF Slots
  <1>3. SlotTicks(seen) = after[n]
    BY Zenon DEF SlotTicks, Through
  <1> HIDE DEF T, One, g
  <1>4. PICK f : Runs(f, step, n, g) /\ Within(f, n, P)
    <2>1. g \in P[0] /\ Leading(step, n, P)
      BY <1>1, <1>2 DEF Leading
    <2> HIDE DEF P, step, n
    <2> QED
      BY <1>1, <2>1, LoopRuns
  <1>5. f = [i \in 0 .. n |-> IF i = 0 THEN g ELSE One(f[i - 1], i)]
    <2>1. ASSUME NEW i \in 1 .. n PROVE step[i][f[i - 1]] = One(f[i - 1], i)
      <3>1. i - 1 \in 0 .. n /\ P[i - 1] = T
        BY <1>1
      <3>2. f[i - 1] \in T
        BY <1>4, <3>1 DEF Within
      <3> QED
        BY <3>2
    <2> HIDE DEF step, P
    <2> QED
      BY <1>1, <1>4, <2>1 DEF Runs
  <1>6. after = [i \in 0 .. n |-> IF i = 0 THEN g ELSE One(after[i - 1], i)]
    BY <1>5
  <1> HIDE DEF after
  <1>7. after[n] \in P[n]
    <2>1. ASSUME NEW i \in 1 .. n, after[i - 1] \in P[i - 1] PROVE after[i] \in P[i]
      BY <1>1, <1>2, <1>6, <2>1
    <2>2. after[0] \in P[0]
      BY <1>1, <1>6
    <2> HIDE DEF P, n
    <2> QED
      BY <1>1, <2>1, <2>2, LoopKeeps
  <1>8. P[n] = T
    BY <1>1
  <1> QED
    BY <1>3, <1>7, <1>8 DEF T

-----------------------------------------------------------------------------
(* The frame *)

\* The invariant: from a fall or a change of stage to the player's next tick
\* no more is kept than who holds what.
ShotInv ==
    /\ weapon \in WeaponNames \cup {"buster"} /\ phase \in Phases
    /\ moved \in BOOLEAN /\ holding \in BOOLEAN
    /\ arena \in Loose(FormsOf(weapon))
    /\ ~moved => arena \in Kept(weapon)
    /\ phase \in {"kept", "slots", "world"} => ~moved
    /\ phase \in {"frame", "kept"} => Stops(arena) # {}

\* The invariant holds at the start.
LEMMA ShotsInitInv == ShotsInit => ShotInv
  <1> SUFFICES ASSUME ShotsInit PROVE ShotInv
    OBVIOUS
  <1>1. weapon \in WeaponNames \cup {"buster"}
    BY ShotsAssumption DEF ShotsInit, WeaponNames
  <1> DEFINE F == FormsOf(weapon)
  <1>2. "none" \in F
    BY <1>1, FormsKnown
  <1>3. /\ EmptyArena.shots = [s \in Slots |-> NoShot] /\ EmptyArena.actors = [s \in Slots |-> "free"]
        /\ EmptyArena.count = 0 /\ EmptyArena.enemies = [e \in Foes |-> NoFoe]
        /\ EmptyArena.effects = [x \in Effects |-> NoVictim] /\ EmptyArena.partner = {}
        /\ EmptyArena.item = NoItem /\ EmptyArena.token = 0
    BY DEF EmptyArena
  <1>4. EmptyArena \in Arenas(F)
    <2>1. [s \in Slots |-> NoShot] \in [Slots -> ShotRecords(F)]
      BY <1>2, NoShotRecord
    <2>2. [x \in Effects |-> NoVictim] \in [Effects -> [target : Int, kind : AnyKind, clock : Int]]
      BY DEF NoVictim, AnyKind
    <2>3. NoItem \in [kind : AnyKind, taken : BOOLEAN]
      BY DEF NoItem, AnyKind
    <2> HIDE DEF F
    <2> QED
      BY <2>1, <2>2, <2>3 DEF EmptyArena, Arenas
  <1>5. arena \in Arenas(F) /\ /\ arena.shots = EmptyArena.shots /\ arena.actors = EmptyArena.actors
                               /\ arena.count = 0 /\ arena.effects = EmptyArena.effects
                               /\ arena.item = EmptyArena.item
    <2>1. \E kind \in Kinds : arena \in {[EmptyArena EXCEPT !.enemies = [e \in Foes |-> kind]], EmptyArena}
                              \/ arena = EmptyArena
      BY DEF ShotsInit, Kinds
    <2> HIDE DEF F
    <2>2. CASE arena = EmptyArena
      BY <1>3, <1>4, <2>2
    <2>3. CASE arena # EmptyArena
      <3>1. PICK kind \in Kinds : arena = [EmptyArena EXCEPT !.enemies = [e \in Foes |-> kind]]
        BY <2>1, <2>3
      <3>2. [e \in Foes |-> kind] \in [Foes -> Kinds \cup {NoFoe}]
        OBVIOUS
      <3> DEFINE E == [e \in Foes |-> kind]
      <3>3. arena = [EmptyArena EXCEPT !.enemies = E] /\ E \in [Foes -> Kinds \cup {NoFoe}]
        BY <3>1, <3>2
      <3> HIDE DEF E
      <3> QED
        BY <1>3, <1>4, <3>3 DEF Arenas
    <2> QED
      BY <2>2, <2>3
  <1>6. Empty(arena)
    BY <1>3, <1>5 DEF Empty, NoVictim, NoItem
  <1>7. Counted(arena)
    <2>1. {s \in Slots : arena.actors[s] # "free"} = {}
      BY <1>3, <1>5
    <2> QED
      BY <1>5, <2>1, FS_EmptySet DEF Counted
  <1>8. arena \in Kept(weapon)
    <2>1. arena \in Safe(F)
      BY <1>5, <1>6, <1>7, EmptySafe
    <2>2. Single(arena)
      BY <1>6 DEF Single, Is, Empty, NoShot
    <2> QED
      BY <2>1, <2>2 DEF Kept
  <1> QED
    BY <1>1, <1>8, KeptLoose DEF ShotInv, ShotsInit, Phases

\* An arena with no shot left suits every weapon.
LEMMA CancelledKept ==
    ASSUME ShotInv, NEW w \in WeaponNames \cup {"buster"}
    PROVE  CancelShots(arena) \in Kept(w)
  <1>1. "none" \in FormsOf(weapon) /\ "none" \in FormsOf(w)
    BY FormsKnown DEF ShotInv
  <1>2. arena \in Arenas(FormsOf(weapon)) /\ Counted(arena) /\ ItemKept(arena)
    BY DEF ShotInv, Loose
  <1>3. CancelShots(arena) \in Safe(FormsOf(w)) /\ \A s \in Slots : CancelShots(arena).shots[s] = NoShot
    BY <1>1, <1>2, CancelledSafe
  <1>4. Single(CancelShots(arena))
    BY <1>3 DEF Single, Is, NoShot
  <1> QED
    BY <1>3, <1>4 DEF Kept

\* The end of a time stop releases nobody.
LEMMA StopEndsLoose ==
    ASSUME NEW F, "none" \in F, NEW g \in Loose(F), NEW s \in Slots, g.shots[s].form = "time",
           NEW r, r = Retired(g, s)
    PROVE  r \in Loose(F)
  <1>1. g \in Arenas(F) /\ Counted(g) /\ HeldOnce(g) /\ ItemKept(g)
    BY DEF Loose
  <1>2. /\ r \in Arenas(F) /\ Counted(r)
        /\ r.shots = [g.shots EXCEPT ![s] = NoShot]
        /\ r.actors = [g.actors EXCEPT ![s] = IF g.actors[s] = "owned" THEN "free" ELSE @]
        /\ r.partner = g.partner /\ r.effects = g.effects /\ r.item = ItemAfter(g, s)
    BY <1>1, RetiredFields
  <1>3. r.item = g.item
    BY <1>2 DEF ItemAfter
  <1>4. r.shots[s].form = "none" /\ \A i \in Slots \ {s} : r.shots[i] = g.shots[i]
    BY <1>1, <1>2 DEF Arenas, NoShot
  <1>5. HeldOnce(r)
    <2>1. \A i \in Slots : r.shots[i] = g.shots[i] \/ r.shots[i].form \notin Freezing \cup Carrying \cup Locking
      BY <1>4 DEF Freezing, Carrying, Locking
    <2> QED
      BY <1>1, <1>2, <1>3, <2>1, HeldSame DEF Beside
  <1>6. ItemKept(r)
    BY <1>1, <1>3, <1>4 DEF ItemKept, Is
  <1> QED
    BY <1>2, <1>5, <1>6 DEF Loose

\* The display frame under a time stop.
LEMMA FrameTickInv == ASSUME ShotInv, FrameTick PROVE ShotInv'
  <1> DEFINE F == FormsOf(weapon)
             s == Least(Stops(arena))
             age == arena.shots[s].clock
             w == Wound(arena, s, "time", age + 1)
             r == Retired(arena, s)
  <1>1. s \in Slots /\ arena.shots[s].form = "time" /\ arena.shots[s].age # "new"
    <2>1. Stops(arena) \in SUBSET Nat /\ Stops(arena) # {}
      BY SlotsFinite DEF Stops, ShotInv, FrameTick
    <2>2. s \in Stops(arena)
      BY <2>1, LeastNatural
    <2> QED
      BY <2>2 DEF Stops, Is, Fresh
  <1>2. arena \in Arenas(F) /\ Counted(arena) /\ ItemKept(arena) /\ HeldOnce(arena) /\ "none" \in F /\ "time" \in F
        /\ weapon \in WeaponNames \cup {"buster"}
    <2>1. arena \in Arenas(F) /\ Counted(arena) /\ ItemKept(arena) /\ HeldOnce(arena)
          /\ weapon \in WeaponNames \cup {"buster"}
      BY DEF ShotInv, Loose
    <2>2. "time" \in F
      BY <1>1, <2>1, FormOf
    <2> QED
      BY <2>1, <2>2, FormsKnown
  <1>3. weapon # "chain"
    BY <1>2, FormsKnown
  <1>4. \/ arena' = r /\ phase' = "player"
        \/ ~moved /\ arena' = w /\ phase' \in {"kept", "player"}
    BY DEF FrameTick
  <1>5. UNCHANGED <<weapon, holding, moved>>
    BY DEF FrameTick
  <1>6. arena' \in Loose(F) /\ (~moved => arena' \in Kept(weapon))
    <2> HIDE DEF s, F
    <2>1. CASE ~moved
      <3>1. arena \in Kept(weapon)
        BY <2>1 DEF ShotInv
      <3>2. Sound(arena, F) /\ arena \in Safe(F)
        BY <3>1, KeptLoose DEF F
      <3>3. r \in Calm(arena, F)
        BY <1>1, <1>2, <3>2, RetiredCalm
      <3>4. w \in Calm(arena, F)
        <4>1. age + 1 \in Int
          <5>1. arena.shots[s] \in ShotRecords(F)
            BY <1>1, <1>2, ShotFields
          <5> QED
            BY <5>1 DEF ShotRecords
        <4>2. Turns(arena.shots[s].form, "time")
          BY <1>1 DEF Turns
        <4> HIDE DEF age
        <4> QED
          BY <1>1, <1>2, <3>2, <4>1, <4>2, TurnedCalm
      <3>5. arena' \in Safe(F)
        <4> HIDE DEF r, w
        <4> QED
          BY <1>4, <3>2, <3>3, <3>4, CalmSafe
      <3>6. arena' \in Kept(weapon)
        BY <1>3, <3>5 DEF Kept, F
      <3> QED
        BY <3>6, KeptLoose DEF F
    <2>2. CASE moved
      <3>1. arena' = r
        BY <1>4, <2>2
      <3>2. arena \in Loose(F)
        BY DEF ShotInv, F
      <3> HIDE DEF r
      <3>3. r \in Loose(F)
        <4>1. r = Retired(arena, s)
          BY Zenon DEF r
        <4> QED
          BY <1>1, <1>2, <3>2, <4>1, StopEndsLoose
      <3> QED
        BY <2>2, <3>1, <3>3
    <2> QED
      BY <2>1, <2>2
  <1>7. phase' = "kept" => Stops(arena') # {}
    <2>1. SUFFICES ASSUME arena' = w PROVE s \in Stops(w)
      BY <1>4
    <2>2. w.shots[s].form = "time" /\ w.shots[s].age = arena.shots[s].age
      <3> HIDE DEF s, F
      <3>1. arena.shots[s] \in ShotRecords(F)
        BY <1>1, <1>2, ShotFields
      <3> DEFINE i == Into(arena, s, "time")
      <3>2. i = [arena EXCEPT !.shots[s] = [arena.shots[s] EXCEPT !.form = "time"]]
        BY DEF Into
      <3>3. i.shots[s].form = "time" /\ i.shots[s].age = arena.shots[s].age
            /\ i.shots \in [Slots -> [form : F, charged : BOOLEAN, age : {"new", "born", "old"}, clock : Int,
                                      target : Int, kind : AnyKind, quad : Int]]
            /\ i \in Arenas(F)
        <4>1. [arena.shots[s] EXCEPT !.form = "time"] \in ShotRecords(F)
          BY <1>2, <3>1 DEF ShotRecords
        <4>2. i = WithShot(arena, s, [arena.shots[s] EXCEPT !.form = "time"])
          BY <3>2 DEF WithShot
        <4> HIDE DEF i
        <4>3. i \in Arenas(F)
          BY <1>1, <1>2, <4>1, <4>2, ShotPut
        <4>4. i.shots[s] = [arena.shots[s] EXCEPT !.form = "time"]
          BY <1>1, <1>2, <3>2 DEF Arenas
        <4> QED
          BY <3>1, <4>3, <4>4 DEF Arenas, ShotRecords
      <3>4. w = [i EXCEPT !.shots[s].clock = age + 1]
        BY DEF Wound
      <3> HIDE DEF i, w, age
      <3> QED
        BY <1>1, <3>3, <3>4 DEF Arenas, ShotRecords
    <2> QED
      BY <1>1, <2>2, Zenon DEF Stops, Is, Fresh
  <1> QED
    BY <1>2, <1>4, <1>5, <1>6, <1>7 DEF ShotInv, Phases

\* A frame kept back.
LEMMA FrameKeptInv == ASSUME ShotInv, FrameKept PROVE ShotInv'
  BY DEF ShotInv, FrameKept, Phases, Stops, Is, Fresh

\* The menu changes the weapon with shots in the air.
LEMMA MenuReadInv == ASSUME ShotInv, MenuRead PROVE ShotInv'
  <1>1. weapon' \in WeaponNames \cup {"buster"}
    BY ShotsAssumption DEF MenuRead, WeaponNames
  <1>2. arena' \in Kept(weapon')
    BY <1>1, CancelledKept DEF MenuRead
  <1>3. arena' \in Loose(FormsOf(weapon'))
    BY <1>2, KeptLoose
  <1> QED
    BY <1>1, <1>2, <1>3 DEF ShotInv, MenuRead, Phases

\* The shoulder buttons change the weapon.
LEMMA CycleWeaponInv == ASSUME ShotInv, CycleWeapon PROVE ShotInv'
  <1>1. weapon' \in WeaponNames \cup {"buster"}
    BY DEF CycleWeapon
  <1>2. arena' \in Kept(weapon')
    BY <1>1, CancelledKept DEF CycleWeapon
  <1>3. arena' \in Loose(FormsOf(weapon'))
    BY <1>2, KeptLoose
  <1> QED
    BY <1>1, <1>2, <1>3 DEF ShotInv, CycleWeapon, Phases

\* The player's tick cancels what may not go on, and feeds the weapon.
LEMMA PlayerTickInv == ASSUME ShotInv, PlayerTick PROVE ShotInv'
  <1>1. weapon \in WeaponNames \cup {"buster"} /\ weapon' = weapon /\ holding' \in BOOLEAN
        /\ moved' = FALSE /\ phase' = "slots"
    BY DEF ShotInv, PlayerTick
  <1> DEFINE c == IF moved THEN CancelShots(arena) ELSE arena
             g == EffectsTicked(Aged(c))
  <1>2. c \in Kept(weapon)
    BY <1>1, CancelledKept DEF ShotInv
  <1>3. g \in Kept(weapon)
    BY <1>2, AgedKept, EffectsKept
  <1>4. arena' \in UNION {SelectShot(h) : h \in SilkPlayerTick(g, holding')}
    BY DEF PlayerTick
  <1> HIDE DEF g
  <1>5. SilkPlayerTick(g, holding') \subseteq Kept(weapon)
    BY <1>1, <1>3, GatheredKept
  <1>6. PICK h \in Kept(weapon) : arena' \in SelectShot(h)
    BY <1>4, <1>5
  <1>7. arena' \in Kept(weapon)
    BY <1>1, <1>6, SelectKept
  <1>8. arena' \in Loose(FormsOf(weapon))
    BY <1>7, KeptLoose
  <1> QED
    BY <1>1, <1>7, <1>8 DEF ShotInv, Phases

\* The projectile slots tick.
LEMMA ProjectileTickInv == ASSUME ShotInv, ProjectileTick PROVE ShotInv'
  <1>1. weapon \in WeaponNames \cup {"buster"} /\ weapon' = weapon /\ holding \in BOOLEAN
        /\ holding' = FALSE /\ moved' = moved /\ phase' = "world" /\ ~moved /\ arena \in Kept(weapon)
    BY DEF ShotInv, ProjectileTick
  <1>2. PICK seen : arena' \in SlotTicks(seen)
    BY DEF ProjectileTick
  <1>3. arena' \in Kept(weapon)
    BY <1>1, <1>2, SlotTicksKept
  <1>4. arena' \in Loose(FormsOf(weapon))
    BY <1>3, KeptLoose
  <1> QED
    BY <1>1, <1>3, <1>4 DEF ShotInv, Phases

-----------------------------------------------------------------------------
(* The world and the theorems *)

\* What happens outside the shots.
LEMMA OutsideKept ==
    ASSUME NEW w, NEW g \in Kept(w), NEW h \in Arenas(FormsOf(w)), h.shots = g.shots, h.actors = g.actors,
           h.count = g.count, HeldOnce(h), ItemKept(h)
    PROVE  h \in Kept(w)
  <1> DEFINE F == FormsOf(w)
  <1>1. Sound(g, F) /\ Sides(g)
    BY KeptLoose
  <1>2. Sound(h, F)
    BY <1>1 DEF Sound, Shaped, Counted, Owning, Recorded
  <1>3. EddiesKept(h) /\ BeesKept(h)
    BY <1>1 DEF Sides, EddiesKept, BeesKept, CursorsOf, Is
  <1>4. h \in Safe(F)
    BY <1>2, <1>3 DEF Safe, Sides
  <1> QED
    BY <1>4, SameShotsKept

\* A shot hits an enemy.
LEMMA HitKept ==
    ASSUME weapon \in WeaponNames \cup {"buster"}, arena \in Kept(weapon), Hit
    PROVE  arena' \in Kept(weapon)
  <1>1. PICK e \in Foes, s \in Slots :
            /\ Contact(arena, e, s)
            /\ arena' = IF weapon = "crystal" THEN CrystalContact(arena, e, s) ELSE ParasiticContact(arena, e, s)
    BY DEF Hit
  <1>2. arena \in Safe(FormsOf(weapon)) /\ arena \in Arenas(FormsOf(weapon))
    BY KeptLoose
  <1>3. arena.shots[s].form \in FormsOf(weapon) /\ arena.shots[s].form \in {"crystal", "bomb"}
    BY <1>1, <1>2, FormOf DEF Contact, Is
  <1>4. CASE weapon = "crystal"
    <2>1. FormsOf(weapon) = CrystalForms
      BY <1>4, FormsKnown
    <2>2. CrystalContact(arena, e, s) \in Safe(CrystalForms)
      BY <1>1, <1>2, <2>1, ContactSafe
    <2> QED
      BY <1>1, <1>4, <2>1, <2>2 DEF Kept
  <1>5. CASE weapon # "crystal"
    <2>1. weapon = "bomb"
      BY <1>3, <1>5, FormsKnown
    <2>2. FormsOf(weapon) = BombForms /\ BombForms # CrystalForms
      BY <2>1, FormsKnown DEF BombForms, CrystalForms
    <2>3. ParasiticContact(arena, e, s) \in Safe(BombForms)
      BY <1>1, <1>2, <2>2, ContactSafe
    <2> QED
      BY <1>1, <1>5, <2>1, <2>2, <2>3 DEF Kept
  <1> QED
    BY <1>4, <1>5

\* An enemy comes, dies or is replaced in its slot.
LEMMA EnemyChangeKept ==
    ASSUME arena \in Kept(weapon), EnemyChange
    PROVE  arena' \in Kept(weapon)
  <1> DEFINE F == FormsOf(weapon)
  <1>1. arena \in Arenas(F) /\ Sides(arena)
    BY KeptLoose
  <1>2. PICK e \in Foes, kind \in Kinds \cup {NoFoe} : arena' = [arena EXCEPT !.enemies[e] = kind]
    BY DEF EnemyChange
  <1> HIDE DEF F
  <1>3. /\ arena' \in Arenas(F) /\ arena'.shots = arena.shots /\ arena'.actors = arena.actors
        /\ arena'.count = arena.count /\ arena'.effects = arena.effects
        /\ arena'.partner = arena.partner /\ arena'.item = arena.item
    BY <1>1, <1>2 DEF Arenas
  <1>4. HeldOnce(arena') /\ ItemKept(arena')
    BY <1>1, <1>3 DEF Sides, HeldOnce, Holds, Is, ItemKept
  <1> QED
    BY <1>3, <1>4, OutsideKept DEF F

\* The partner takes hold of an enemy, or lets it go.
LEMMA PartnerHoldsKept ==
    ASSUME arena \in Kept(weapon), PartnerHolds
    PROVE  arena' \in Kept(weapon)
  <1> DEFINE F == FormsOf(weapon)
  <1>1. arena \in Arenas(F) /\ Sides(arena) /\ arena.partner \in SUBSET Foes
    BY KeptLoose DEF Arenas
  <1>2. PICK e \in Foes : arena' = [arena EXCEPT !.partner =
                IF e \in @ THEN @ \ {e}
                ELSE IF arena.enemies[e] # NoFoe /\ ~Held(arena, e) THEN @ \cup {e} ELSE @]
    BY DEF PartnerHolds
  <1> DEFINE P == IF e \in arena.partner THEN arena.partner \ {e}
                  ELSE IF arena.enemies[e] # NoFoe /\ ~Held(arena, e) THEN arena.partner \cup {e} ELSE arena.partner
  <1>3. P \in SUBSET Foes /\ arena' = [arena EXCEPT !.partner = P]
    BY <1>1, <1>2
  <1>4. \A d \in P : d \in arena.partner \/ (d = e /\ ~Held(arena, e))
    OBVIOUS
  <1> HIDE DEF F, P
  <1>5. /\ arena' \in Arenas(F) /\ arena'.shots = arena.shots /\ arena'.actors = arena.actors
        /\ arena'.count = arena.count /\ arena'.effects = arena.effects
        /\ arena'.partner = P /\ arena'.item = arena.item
    BY <1>1, <1>3 DEF Arenas
  <1>6. \A d \in P : (\A s \in Slots : ~Holds(arena, s, d)) /\ (\A x \in Effects : arena.effects[x].target # d)
    BY <1>1, <1>4, NotHeld DEF Sides, HeldOnce
  <1>7. \A s \in Slots : (\A d : Holds(arena', s, d) <=> Holds(arena, s, d))
                         /\ (Is(arena', s, Locking) <=> Is(arena, s, Locking))
    BY <1>5 DEF Holds, Is
  <1>8. HeldOnce(arena')
    BY <1>1, <1>5, <1>6, <1>7 DEF Sides, HeldOnce
  <1>9. ItemKept(arena')
    BY <1>1, <1>5 DEF Sides, ItemKept, Is
  <1> QED
    BY <1>5, <1>8, <1>9, OutsideKept DEF F

\* A pickup comes or is taken.
LEMMA ItemChangeKept ==
    ASSUME arena \in Kept(weapon), ItemChange
    PROVE  arena' \in Kept(weapon)
  <1> DEFINE F == FormsOf(weapon)
  <1>1. arena \in Arenas(F) /\ Sides(arena)
    BY KeptLoose
  <1>2. PICK i \in {NoItem} \cup [kind : {"health", "energy"}, taken : {FALSE}] : arena' = [arena EXCEPT !.item = i]
    BY DEF ItemChange
  <1>3. i \in [kind : AnyKind, taken : BOOLEAN] /\ ~i.taken
    <2>1. \E k \in AnyKind : i = [kind |-> k, taken |-> FALSE]
      BY DEF NoItem, AnyKind
    <2>2. PICK k \in AnyKind : i = [kind |-> k, taken |-> FALSE]
      BY <2>1
    <2> QED
      BY <2>2
  <1> HIDE DEF F
  <1>4. /\ arena' \in Arenas(F) /\ arena'.shots = arena.shots /\ arena'.actors = arena.actors
        /\ arena'.count = arena.count /\ arena'.effects = arena.effects
        /\ arena'.partner = arena.partner /\ arena'.item = i
    BY <1>1, <1>2, <1>3 DEF Arenas
  <1>5. HeldOnce(arena')
    BY <1>1, <1>4 DEF Sides, HeldOnce, Holds, Is
  <1>6. ItemKept(arena')
    BY <1>3, <1>4 DEF ItemKept
  <1> QED
    BY <1>4, <1>5, <1>6, OutsideKept DEF F

\* A shot of the guest's own ends and is no longer counted.
Freed(g, s) == [g EXCEPT !.actors[s] = "free", !.count = @ - 1]

\* It leaves the arena safe: no record stood for its slot.
LEMMA NativeEnds ==
    ASSUME NEW F, NEW g \in Safe(F), NEW s \in Slots, g.actors[s] = "native", NEW h, h = Freed(g, s)
    PROVE  h \in Safe(F) /\ h.shots = g.shots
  <1>1. Sound(g, F) /\ g \in Arenas(F) /\ Sides(g)
    BY DEF Safe
  <1> DEFINE k == g.count - 1
  <1>2. h = [g EXCEPT !.actors[s] = "free", !.count = k]
    BY Zenon DEF Freed
  <1>3. k \in Int /\ h = [g EXCEPT !.actors[s] = "free", !.count = k]
    BY <1>1, <1>2 DEF Arenas
  <1> HIDE DEF k
  <1>4. /\ h \in Arenas(F) /\ h.shots = g.shots /\ h.actors = [g.actors EXCEPT ![s] = "free"]
        /\ h.count = k /\ h.effects = g.effects /\ h.partner = g.partner /\ h.item = g.item
    <2> DEFINE g1 == [g EXCEPT !.actors[s] = "free"]
    <2>1. h = [g1 EXCEPT !.count = k]
      BY <1>1, <1>3 DEF Arenas
    <2>2. /\ g1 \in Arenas(F) /\ g1.shots = g.shots /\ g1.actors = [g.actors EXCEPT ![s] = "free"]
          /\ g1.effects = g.effects /\ g1.partner = g.partner /\ g1.item = g.item
      BY <1>1 DEF Arenas
    <2> HIDE DEF g1
    <2> QED
      BY <1>3, <2>1, <2>2 DEF Arenas
  <1>5. Counted(h)
    <2>1. h.count = g.count + 0 - 1
      BY <1>1, <1>4 DEF k, Arenas
    <2>2. h.count = g.count + (IF "free" = "free" THEN 0 ELSE 1) - (IF g.actors[s] = "free" THEN 0 ELSE 1)
      BY <2>1
    <2>3. Counted(g) /\ "free" \in {"free", "owned", "native"}
      BY <1>1 DEF Sound
    <2> QED
      BY <1>1, <1>4, <2>2, <2>3, CountChanges
  <1>6. Sound(h, F)
    <2>1. h.actors[s] = "free" /\ \A i \in Slots \ {s} : h.actors[i] = g.actors[i]
      BY <1>1, <1>4 DEF Arenas
    <2> QED
      BY <1>1, <1>4, <1>5, <2>1 DEF Sound, Shaped, Owning, Recorded
  <1>7. Sides(h)
    BY <1>1, <1>4 DEF Sides, HeldOnce, Holds, Is, EddiesKept, BeesKept, CursorsOf, ItemKept
  <1> QED
    BY <1>4, <1>6, <1>7 DEF Safe

\* A shot of the guest's own ends.
LEMMA NativeShotEndsKept ==
    ASSUME arena \in Kept(weapon), NativeShotEnds
    PROVE  arena' \in Kept(weapon)
  <1>1. PICK s \in Slots : arena.actors[s] = "native" /\ arena' = Freed(arena, s)
    BY Zenon DEF NativeShotEnds, Freed
  <1>2. arena \in Safe(FormsOf(weapon))
    BY KeptLoose
  <1>3. arena' \in Safe(FormsOf(weapon)) /\ arena'.shots = arena.shots
    BY <1>1, <1>2, NativeEnds
  <1> QED
    BY <1>3, SameShotsKept

\* The player falls or the stage changes: the slots may be cleared under the records.
LEMMA PlayEndsLoose ==
    ASSUME NEW F, arena \in Loose(F), PlayEnds
    PROVE  arena' \in Loose(F)
  <1>1. arena \in Arenas(F) /\ HeldOnce(arena)
    BY DEF Loose
  <1>2. CASE arena' = arena
    BY <1>2
  <1>3. CASE arena' = [arena EXCEPT !.actors = EmptyArena.actors, !.count = 0,
                                    !.enemies = EmptyArena.enemies, !.item = NoItem]
    <2> DEFINE A == EmptyArena.actors
               E == EmptyArena.enemies
               I == NoItem
    <2>1. A = [s \in Slots |-> "free"] /\ E = [e \in Foes |-> NoFoe]
      BY DEF EmptyArena
    <2>2. A \in [Slots -> {"free", "owned", "native"}] /\ E \in [Foes -> Kinds \cup {NoFoe}]
      BY <2>1
    <2>3. I \in [kind : AnyKind, taken : BOOLEAN] /\ ~I.taken
      BY DEF NoItem, AnyKind
    <2>4. arena' = [arena EXCEPT !.actors = A, !.count = 0, !.enemies = E, !.item = I]
      BY <1>3
    <2> HIDE DEF A, E, I
    <2>5. /\ arena' \in Arenas(F) /\ arena'.shots = arena.shots /\ arena'.actors = A
          /\ arena'.count = 0 /\ arena'.effects = arena.effects
          /\ arena'.partner = arena.partner /\ arena'.item = I
      <3> DEFINE g1 == [arena EXCEPT !.actors = A]
                 g2 == [g1 EXCEPT !.count = 0]
                 g3 == [g2 EXCEPT !.enemies = E]
      <3>1. arena' = [g3 EXCEPT !.item = I]
        BY <1>1, <2>4 DEF Arenas
      <3>2. /\ g1 \in Arenas(F) /\ g1.shots = arena.shots /\ g1.actors = A
            /\ g1.effects = arena.effects /\ g1.partner = arena.partner
        BY <1>1, <2>2 DEF Arenas
      <3> HIDE DEF g1
      <3>3. /\ g2 \in Arenas(F) /\ g2.shots = arena.shots /\ g2.actors = A /\ g2.count = 0
            /\ g2.effects = arena.effects /\ g2.partner = arena.partner
        BY <3>2 DEF Arenas
      <3> HIDE DEF g2
      <3>4. /\ g3 \in Arenas(F) /\ g3.shots = arena.shots /\ g3.actors = A /\ g3.count = 0
            /\ g3.effects = arena.effects /\ g3.partner = arena.partner
        BY <2>2, <3>3 DEF Arenas
      <3> HIDE DEF g3
      <3> QED
        BY <2>3, <3>1, <3>4 DEF Arenas
    <2>6. Counted(arena')
      <3>1. {s \in Slots : arena'.actors[s] # "free"} = {}
        BY <2>1, <2>5
      <3> QED
        BY <2>5, <3>1, FS_EmptySet DEF Counted
    <2>7. HeldOnce(arena')
      BY <1>1, <2>5 DEF HeldOnce, Holds, Is
    <2>8. ItemKept(arena')
      BY <2>3, <2>5 DEF ItemKept
    <2> QED
      BY <2>5, <2>6, <2>7, <2>8 DEF Loose
  <1> QED
    BY <1>2, <1>3 DEF PlayEnds

\* What the world does in a frame.
LEMMA WorldInv == ASSUME ShotInv, World PROVE ShotInv'
  <1>1. /\ weapon \in WeaponNames \cup {"buster"} /\ weapon' = weapon /\ holding' = holding /\ holding \in BOOLEAN
        /\ ~moved /\ moved \in BOOLEAN /\ arena \in Kept(weapon) /\ arena \in Loose(FormsOf(weapon))
        /\ phase' = IF Stops(arena') = {} THEN "player" ELSE "frame"
    BY DEF ShotInv, World
  <1>2. \/ arena' \in Kept(weapon) /\ moved' = moved
        \/ arena' \in Loose(FormsOf(weapon)) /\ moved' = TRUE
    <2>1. CASE UNCHANGED <<arena, moved, events>>
      BY <1>1, <2>1
    <2>2. CASE (Hit \/ ItemChange \/ NativeShotEnds) /\ UNCHANGED <<moved, events>>
      BY <1>1, <2>2, HitKept, ItemChangeKept, NativeShotEndsKept
    <2>3. CASE (EnemyChange \/ PartnerHolds) /\ UNCHANGED moved
      BY <1>1, <2>3, EnemyChangeKept, PartnerHoldsKept
    <2>4. CASE PlayEnds
      <3>1. arena' \in Loose(FormsOf(weapon))
        BY <1>1, <2>4, PlayEndsLoose
      <3> QED
        BY <2>4, <3>1 DEF PlayEnds
    <2> QED
      BY <2>1, <2>2, <2>3, <2>4 DEF World
  <1>3. arena' \in Loose(FormsOf(weapon))
    BY <1>2, KeptLoose
  <1> QED
    BY <1>1, <1>2, <1>3 DEF ShotInv, Phases

\* The invariant of the weapons holds in every behavior, for every number of slots,
\* enemies and effects: every step of a frame keeps it, the player's tick restores it.
THEOREM ShotsInvariant == ShotsSpec => []ShotInv
  <1>1. ShotsInit => ShotInv
    BY ShotsInitInv
  <1>2. ShotInv /\ [ShotsNext]_shotVars => ShotInv'
    <2> SUFFICES ASSUME ShotInv, [ShotsNext]_shotVars PROVE ShotInv'
      OBVIOUS
    <2>1. CASE UNCHANGED shotVars
      BY <2>1 DEF ShotInv, shotVars, Stops, Is, Fresh
    <2> QED
      BY <2>1, FrameTickInv, FrameKeptInv, MenuReadInv, CycleWeaponInv, PlayerTickInv, ProjectileTickInv, WorldInv
      DEF ShotsNext
  <1> QED
    BY <1>1, <1>2, PTL DEF ShotsSpec

\* A set none of whose elements differ has one at most.
LEMMA AtMostOne ==
    ASSUME NEW S, \A x, y \in S : x = y
    PROVE  IsFiniteSet(S) /\ Cardinality(S) \in {0, 1} /\ (Cardinality(S) = 0 <=> S = {})
  <1>1. CASE S = {}
    BY <1>1, FS_EmptySet
  <1>2. CASE S # {}
    <2>1. PICK x \in S : TRUE
      BY <1>2
    <2>2. S = {x}
      BY <2>1
    <2>3. IsFiniteSet({x}) /\ Cardinality({x}) = 1
      BY FS_Singleton
    <2> QED
      BY <1>2, <2>2, <2>3
  <1> QED
    BY <1>1, <1>2

\* A set of two names at most.
LEMMA AtMostTwo ==
    ASSUME NEW a, NEW b, NEW E, E \subseteq {a, b}
    PROVE  Cardinality(E) <= 2
  <1> DEFINE S == {a}
             T == S \cup {b}
  <1>1. IsFiniteSet(S) /\ Cardinality(S) = 1
    BY FS_Singleton
  <1>2. E \subseteq T
    OBVIOUS
  <1> HIDE DEF S
  <1>3. IsFiniteSet(T) /\ (Cardinality(T) = Cardinality(S) \/ Cardinality(T) = Cardinality(S) + 1)
    BY <1>1, FS_AddElement
  <1> HIDE DEF T
  <1>4. IsFiniteSet(E) /\ Cardinality(E) <= Cardinality(T)
    BY <1>2, <1>3, FS_Subset
  <1>5. Cardinality(E) \in Nat
    BY <1>4, FS_CardinalityType
  <1> QED
    BY <1>1, <1>3, <1>4, <1>5

\* No enemy is ever held twice, by the shots, by the well's victims or by the partner,
\* and no two cursors lock on to one enemy: each search and contact looks at all the others.
THEOREM HoldsApart == ShotsSpec => []HeldApart
  <1>1. ShotInv => HeldApart
    <2> SUFFICES ASSUME ShotInv PROVE HeldApart
      OBVIOUS
    <2>1. HeldOnce(arena)
      BY DEF ShotInv, Loose
    <2>2. ASSUME NEW e \in Foes PROVE /\ OwnHolders(arena, e) <= 1
                                      /\ e \in arena.partner => OwnHolders(arena, e) = 0
      <3> DEFINE S == {s \in Slots : Holds(arena, s, e)}
                 X == {x \in Effects : arena.effects[x].target = e}
      <3>1. OwnHolders(arena, e) = Cardinality(S) + Cardinality(X)
        BY HoldersFinite
      <3>2. (\A s, t \in S : s = t) /\ (\A x, y \in X : x = y) /\ (S = {} \/ X = {})
        BY <2>1 DEF HeldOnce
      <3>3. e \in arena.partner => S = {} /\ X = {}
        BY <2>1 DEF HeldOnce
      <3> HIDE DEF S, X
      <3>4. Cardinality(S) \in {0, 1} /\ (Cardinality(S) = 0 <=> S = {})
        BY <3>2, AtMostOne
      <3>5. Cardinality(X) \in {0, 1} /\ (Cardinality(X) = 0 <=> X = {})
        BY <3>2, AtMostOne
      <3> QED
        BY <3>1, <3>2, <3>3, <3>4, <3>5
    <2>3. \A s, t \in Slots : s # t /\ Is(arena, s, Locking) /\ Is(arena, t, Locking)
                              => arena.shots[s].target # arena.shots[t].target
      BY <2>1 DEF HeldOnce
    <2> QED
      BY <2>2, <2>3 DEF HeldApart
  <1> QED
    BY <1>1, ShotsInvariant, PTL

\* At the end of a frame the guest's count is right, a record stands for every slot of
\* ours and for no other, two eddies at most name a slot, every bee has a busy cursor of
\* its own, and a pickup that is taken is carried.
THEOREM ShotsCounted == ShotsSpec => []ShotsAccounted
  <1>1. ShotInv => ShotsAccounted
    <2> SUFFICES ASSUME ShotInv, ~moved PROVE
            /\ arena.count = SlotCount - Cardinality(FreeSlots(arena))
            /\ \A s \in Slots : Is(arena, s, {"none"}) <=> arena.actors[s] # "owned"
            /\ \A s \in Slots : Cardinality({i \in Slots : Is(arena, i, {"eddy"}) /\ arena.shots[i].target = s}) <= 2
            /\ \A s \in Slots : Is(arena, s, {"bee"}) =>
                  /\ \E c \in CursorAt(arena, arena.shots[s].quad) : Is(arena, c, {"busy"})
                  /\ \A i \in Slots \ {s} : Is(arena, i, {"bee"}) => arena.shots[i].quad # arena.shots[s].quad
            /\ arena.item.taken => \E s \in Slots : Is(arena, s, {"carry"})
      BY DEF ShotsAccounted
    <2>1. arena \in Kept(weapon)
      BY DEF ShotInv
    <2>2. Sound(arena, FormsOf(weapon)) /\ Sides(arena)
      BY <2>1, KeptLoose
    <2>3. arena.count = SlotCount - Cardinality(FreeSlots(arena))
      <3> DEFINE A == {s \in Slots : arena.actors[s] # "free"}
      <3>1. IsFiniteSet(Slots) /\ Cardinality(Slots) = SlotCount
        <4>1. SlotCount \in Nat /\ SlotCount >= 1
          BY PoolAssumption
        <4> QED
          BY <4>1, FS_Interval DEF Slots
      <3>2. FreeSlots(arena) \in SUBSET Slots /\ A = Slots \ FreeSlots(arena)
        BY DEF FreeSlots
      <3>3. Slots \cap FreeSlots(arena) = FreeSlots(arena)
        BY <3>2
      <3>4. Cardinality(Slots \ FreeSlots(arena)) = Cardinality(Slots) - Cardinality(Slots \cap FreeSlots(arena))
        BY <3>1, FS_Difference
      <3>5. arena.count = Cardinality(A)
        BY <2>2 DEF Sound, Counted
      <3> QED
        BY <3>1, <3>2, <3>3, <3>4, <3>5
    <2>4. \A s \in Slots : Is(arena, s, {"none"}) <=> arena.actors[s] # "owned"
      BY <2>2 DEF Sound, Owning, Recorded, Is
    <2>5. ASSUME NEW s \in Slots
          PROVE  Cardinality({i \in Slots : Is(arena, i, {"eddy"}) /\ arena.shots[i].target = s}) <= 2
      <3> DEFINE E == {i \in Slots : Is(arena, i, {"eddy"}) /\ arena.shots[i].target = s}
      <3>1. PICK a, b \in Slots : \A i \in Slots : Is(arena, i, {"eddy"}) /\ arena.shots[i].target = s => i = a \/ i = b
        BY <2>2 DEF Sides, EddiesKept
      <3>2. E \subseteq {a, b}
        BY <3>1
      <3> HIDE DEF E
      <3>8. Cardinality(E) <= 2
        BY <3>2, AtMostTwo
      <3> QED
        BY <3>8 DEF E
    <2>6. ASSUME NEW s \in Slots, Is(arena, s, {"bee"})
          PROVE  /\ \E c \in CursorAt(arena, arena.shots[s].quad) : Is(arena, c, {"busy"})
                 /\ \A i \in Slots \ {s} : Is(arena, i, {"bee"}) => arena.shots[i].quad # arena.shots[s].quad
      <3>1. PICK c \in Slots : Is(arena, c, {"busy"}) /\ arena.shots[c].quad = arena.shots[s].quad
        BY <2>2, <2>6 DEF Sides, BeesKept
      <3>2. c \in CursorAt(arena, arena.shots[s].quad)
        BY <3>1 DEF CursorAt, CursorsOf, CursorForms, Locking, Is
      <3> QED
        BY <2>2, <2>6, <3>1, <3>2 DEF Sides, BeesKept
    <2>7. arena.item.taken => \E s \in Slots : Is(arena, s, {"carry"})
      BY <2>2 DEF Sides, ItemKept
    <2> QED
      BY <2>3, <2>4, <2>5, <2>6, <2>7
  <1> QED
    BY <1>1, ShotsInvariant, PTL

==============================================================================

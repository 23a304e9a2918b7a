--------------------------- MODULE HunterParts_proof ---------------------------
(***************************************************************************)
(* Two promises of the hunters and their armors, for every number of shot  *)
(* slots, every clock and whatever the player and the stage do: each       *)
(* hunter keeps his own health (PoolsKept), and what the parts borrow from *)
(* the guest is given back (PartsGiveBack).                                *)
(*                                                                         *)
(* Most routines touch little of the moment they are given.  Calm says     *)
(* what such a routine leaves alone; one line for each routine shows that  *)
(* it is calm, and only the few that are not are looked at more closely.   *)
(***************************************************************************)
EXTENDS HunterParts, FiniteSetTheorems, NaturalsInduction, WellFoundedInduction, TLAPS

-----------------------------------------------------------------------------
(* The moments, and what keeps them whole *)

Modes == {"menu", "entry", "play", "late"}
MomentFields == {"game", "world", "body", "zero", "armor", "slots", "shots", "count"}
WorldFields == {"mode", "busy", "paused", "low", "special", "cooling", "released", "cut"}
BodyFields == {"act", "ground", "prop", "gravity", "hp"}
ZeroFields == {"active", "modern", "phase", "tick", "height", "seeded", "hp", "dash", "jumpUsed",
               "dashUsed"}
ArmorFields == {"valid", "gold", "buster", "dash", "barrier", "heal", "giga", "crashed", "energy",
                "hyper", "hyperEnergy", "combo", "map", "closing", "seen"}
DashFields == {"ticks", "up", "used", "jump", "rest"}

Whole(g) ==
    /\ DOMAIN g = MomentFields /\ DOMAIN g.world = WorldFields /\ DOMAIN g.body = BodyFields
    /\ DOMAIN g.zero = ZeroFields /\ DOMAIN g.armor = ArmorFields
    /\ DOMAIN g.armor.dash = DashFields /\ g.armor.dash.ticks \in Nat /\ g.armor.giga \in Nat
    /\ g.zero.active \in Hunters /\ DOMAIN g.zero.hp = Hunters /\ g.zero.phase \in 0 .. 6
    /\ DOMAIN g.slots = Places /\ DOMAIN g.shots = Places /\ g.world.mode \in Modes

\* The guest's count is right.
Used(g) == {i \in Places : g.slots[i] # "free"}
Balanced(g) == g.count = Cardinality(Used(g))

\* The body has its weight, or a reason to be without it.
Excused(g) ==
    \/ g.body.gravity \/ g.armor.giga > 0 \/ g.world.cut
    \/ g.armor.dash.ticks > 0 /\ g.armor.dash.up

\* What a moment must be like between two routines.  Whatever is not yet
\* prepared may be emptied at any time, so it needs a reason that lasts.
Fit(g) ==
    /\ Whole(g) /\ Balanced(g)
    /\ g.world.mode = "entry" => g.body.gravity
    /\ g.world.mode = "play" => Excused(g)
    /\ ~g.armor.valid /\ g.world.mode \in {"entry", "play"} => g.body.gravity \/ g.world.cut

\* The same hunters in the same part of the game.
Kin(h, g) ==
    /\ h.game = g.game /\ h.world.mode = g.world.mode /\ h.world.cut = g.world.cut
    /\ h.zero.active = g.zero.active /\ h.zero.hp = g.zero.hp /\ h.zero.seeded = g.zero.seeded
    /\ h.zero.phase = g.zero.phase /\ h.zero.modern = g.zero.modern

\* What a routine of the parts leaves alone.
Calm(h, g) ==
    /\ Whole(h) /\ Kin(h, g)
    /\ Balanced(g) => Balanced(h)
    /\ Excused(g) => Excused(h)
    /\ h.body.gravity \in {g.body.gravity, TRUE}
    /\ h.body.prop \in {g.body.prop, FALSE}
    /\ h.armor.valid = g.armor.valid

\* What a routine leaves alone that touches nothing borrowed.
Quiet(h, g) ==
    /\ Whole(h) /\ Kin(h, g)
    /\ h.slots = g.slots /\ h.count = g.count
    /\ h.body.gravity = g.body.gravity /\ h.body.prop = g.body.prop
    /\ h.armor.valid = g.armor.valid /\ h.armor.giga = g.armor.giga
    /\ h.armor.dash.ticks = g.armor.dash.ticks /\ h.armor.dash.up = g.armor.dash.up

USE DEF Modes, MomentFields, WorldFields, BodyFields, ZeroFields, ArmorFields, DashFields, Hunters

LEMMA CalmTwice ==
    ASSUME NEW g, NEW h, NEW k, Calm(h, g), Calm(k, h)
    PROVE  Calm(k, g)
  BY Zenon DEF Calm, Kin

LEMMA CalmItself ==
    ASSUME NEW g, Whole(g)
    PROVE  Calm(g, g)
  BY Zenon DEF Calm, Kin

\* A routine that leaves the slots alone keeps the count right.
LEMMA SameSlots ==
    ASSUME NEW g, NEW h, h.slots = g.slots, h.count = g.count
    PROVE  Balanced(g) => Balanced(h)
  BY DEF Balanced, Used


LEMMA QuietCalm ==
    ASSUME NEW g, NEW h, Quiet(h, g)
    PROVE  Calm(h, g)
  <1>1. Excused(g) => Excused(h)
    BY DEF Quiet, Kin, Excused
  <1> QED
    BY <1>1, SameSlots DEF Quiet, Calm

LEMMA QuietTwice ==
    ASSUME NEW g, NEW h, NEW k, Quiet(h, g), Quiet(k, h)
    PROVE  Quiet(k, g)
  BY Zenon DEF Quiet, Kin

LEMMA QuietItself ==
    ASSUME NEW g, Whole(g)
    PROVE  Quiet(g, g)
  BY Zenon DEF Quiet, Kin

LEMMA CalmFit ==
    ASSUME NEW g, NEW h, Fit(g), Calm(h, g)
    PROVE  Fit(h)
  <1>1. Whole(h) /\ Balanced(h)
    BY DEF Fit, Calm
  <1>2. h.world.mode = "entry" => h.body.gravity
    BY DEF Fit, Calm, Kin
  <1>3. h.world.mode = "play" => Excused(h)
    BY DEF Fit, Calm, Kin
  <1>4. ~h.armor.valid /\ h.world.mode \in {"entry", "play"} => h.body.gravity \/ h.world.cut
    BY DEF Fit, Calm, Kin
  <1> QED
    BY <1>1, <1>2, <1>3, <1>4 DEF Fit

-----------------------------------------------------------------------------
(* The dash *)

LEMMA EndDashCalm ==
    ASSUME NEW g, Whole(g)
    PROVE  /\ Calm(EndDash(g), g) /\ EndDash(g).body.hp = g.body.hp
           /\ EndDash(g).body.ground = g.body.ground
           /\ g.armor.dash.rest = 1 => EndDash(g).body.prop = FALSE
  <1> DEFINE rests == [g EXCEPT !.armor.dash.ticks = 0, !.armor.dash.up = FALSE,
                                !.armor.dash.rest = 0]
             act == IF g.body.act = "dash" THEN "fall" ELSE g.body.act
             h == [rests EXCEPT !.body.prop = FALSE, !.body.gravity = TRUE, !.body.act = act]
  <1>1. EndDash(g) = h \/ (EndDash(g) = g /\ g.armor.dash.rest = 0)
    <2> DEFINE k == [g EXCEPT !.armor.dash.ticks = 0, !.armor.dash.up = FALSE,
                              !.armor.dash.rest = 0, !.body.prop = FALSE, !.body.gravity = TRUE,
                              !.body.act = act]
    <2>1. EndDash(g) = k \/ (EndDash(g) = g /\ g.armor.dash.rest = 0)
      BY ZenonT(30) DEF EndDash
    <2>2. k = h
      OBVIOUS
    <2> QED
      BY <2>1, <2>2
  <1>2. /\ rests.slots = g.slots /\ rests.count = g.count /\ rests.body = g.body
        /\ rests.world = g.world /\ rests.zero = g.zero /\ rests.game = g.game
    BY DEF Whole
  <1>3. rests.armor.valid = g.armor.valid /\ Whole(rests)
    BY DEF Whole
  <1> HIDE DEF rests
  <1>4. /\ h.slots = rests.slots /\ h.count = rests.count /\ h.armor = rests.armor
        /\ h.world = rests.world /\ h.zero = rests.zero /\ h.game = rests.game
    BY <1>3 DEF Whole
  <1>5. h.body.gravity = TRUE /\ h.body.prop = FALSE
    BY <1>3 DEF Whole
  <1>6. h.body.hp = rests.body.hp /\ h.body.ground = rests.body.ground /\ Whole(h)
    BY <1>3 DEF Whole
  <1> HIDE DEF h
  <1>7. Calm(h, g)
    BY <1>2, <1>3, <1>4, <1>5, <1>6, SameSlots DEF Calm, Kin, Excused
  <1>8. CASE EndDash(g) = h
    BY <1>2, <1>5, <1>6, <1>7, <1>8
  <1>9. CASE EndDash(g) = g /\ g.armor.dash.rest = 0
    <2>1. g.armor.dash.rest # 1
      BY <1>9
    <2> QED
      BY Zenon, <1>9, <2>1, CalmItself
  <1> QED
    BY <1>1, <1>8, <1>9

LEMMA DashRecoveryCalm ==
    ASSUME NEW g, Whole(g)
    PROVE  /\ Calm(DashRecovery(g), g) /\ DashRecovery(g).body.hp = g.body.hp
           /\ DashRecovery(g).body.prop = FALSE
  <1> DEFINE h == DashRecovery(g)
  <1>1. Whole(h)
    BY DEF Whole, DashRecovery
  <1>2. /\ h.slots = g.slots /\ h.count = g.count
        /\ h.world = g.world /\ h.zero = g.zero /\ h.game = g.game
    BY DEF Whole, DashRecovery
  <1>3. Excused(h)
    BY DEF Whole, DashRecovery, Excused
  <1>4. h.body.gravity = TRUE
    BY DEF Whole, DashRecovery
  <1>5. h.body.prop = FALSE /\ h.armor.valid = g.armor.valid
    BY DEF Whole, DashRecovery
  <1>6. h.body.hp = g.body.hp
    BY DEF Whole, DashRecovery
  <1> HIDE DEF h
  <1>7. Calm(h, g)
    BY <1>1, <1>2, <1>3, <1>4, <1>5, SameSlots DEF Calm, Kin
  <1> QED
    BY <1>5, <1>6, <1>7 DEF h

LEMMA RestoredCalm ==
    ASSUME NEW g, Whole(g)
    PROVE  Calm(Restored(g), g)
  <1> DEFINE e == EndDash(g)
             k == [e EXCEPT !.armor.dash.used = 0, !.armor.dash.jump = FALSE]
  <1>1. Calm(e, g)
    BY EndDashCalm
  <1> HIDE DEF e
  <1>2. Quiet(k, e)
    BY <1>1 DEF Calm, Quiet, Whole, Kin
  <1> HIDE DEF k
  <1>3. Calm(k, g)
    BY <1>1, <1>2, QuietCalm, CalmTwice
  <1>4. Restored(g) = k \/ Restored(g) = g
    BY DEF Restored, k, e
  <1> QED
    BY <1>3, <1>4, CalmItself

LEMMA SteeredCalm ==
    ASSUME NEW g, Whole(g), NEW b
    PROVE  Calm(Steered(g, b), g)
  BY EndDashCalm, CalmItself DEF Steered

LEMMA JumpedOffCalm ==
    ASSUME NEW g, Whole(g), NEW b
    PROVE  Calm(JumpedOff(g, b), g)
  <1>1. Quiet(JumpedOff(g, b), g)
    BY DEF Quiet, Kin, Whole, JumpedOff
  <1> QED
    BY <1>1, QuietCalm

LEMMA HaltedCalm ==
    ASSUME NEW g, Whole(g), NEW b
    PROVE  Calm(Halted(g, b), g)
  BY DashRecoveryCalm, CalmItself DEF Halted

\* A dash starts from rest: where none was running none gave a reason to be
\* without weight.
LEMMA StartDashCalm ==
    ASSUME NEW g, Whole(g), NEW b
    PROVE  Calm(StartDash(g, b), g)
  <1> DEFINE h == StartDash(g, b)
             up == g.game = 3 /\ b.dir = "up"
             set == [g EXCEPT !.armor.dash.used = @ + 1, !.armor.dash.up = up,
                              !.armor.dash.ticks = DashFrames]
             k == [set EXCEPT !.body.act = IF up THEN "jump" ELSE "dash"]
  <1>1. CASE g.armor.dash.ticks # 0
    BY <1>1, CalmItself DEF StartDash
  <1>2. CASE g.armor.dash.ticks = 0
    <2>1. h = k \/ h = g
      BY DEF StartDash
    <2>2. /\ set.slots = g.slots /\ set.count = g.count /\ set.body = g.body
          /\ set.world = g.world /\ set.zero = g.zero /\ set.game = g.game
      BY DEF Whole
    <2>3. set.armor.valid = g.armor.valid /\ set.armor.giga = g.armor.giga /\ Whole(set)
      BY PartsAssumption DEF Whole
    <2> HIDE DEF set
    <2>4. /\ k.slots = set.slots /\ k.count = set.count /\ k.armor = set.armor
          /\ k.world = set.world /\ k.zero = set.zero /\ k.game = set.game
      BY <2>3 DEF Whole
    <2>5. k.body.gravity = set.body.gravity /\ k.body.prop = set.body.prop /\ Whole(k)
      BY <2>3 DEF Whole
    <2> HIDE DEF k
    <2>6. Excused(g) => Excused(k)
      BY <1>2, <2>2, <2>3, <2>4, <2>5 DEF Excused
    <2>7. Calm(k, g)
      BY <2>2, <2>3, <2>4, <2>5, <2>6, SameSlots DEF Calm, Kin
    <2> QED
      BY <2>1, <2>7, CalmItself
  <1> QED
    BY <1>1, <1>2

\* While a dash runs the body is without weight or on a pretended ground, and
\* the dash itself is the reason.
LEMMA LiftedFit ==
    ASSUME NEW g, Fit(g), g.world.mode = "play", g.armor.valid, ~g.body.prop
    PROVE  /\ Fit(Lifted(g)) /\ Kin(Lifted(g), g)
           /\ Lifted(g).body.prop => /\ Lifted(g).armor.dash.ticks > 0
                                     /\ ~Lifted(g).armor.dash.up
  <1> DEFINE h == Lifted(g)
             floats == [g EXCEPT !.body.gravity = FALSE]
             stands == [g EXCEPT !.body.prop = TRUE]
  <1>1. g.armor.dash.ticks \in Nat /\ Whole(g)
    BY DEF Fit, Whole
  <1>2. CASE g.armor.dash.ticks = 0
    <2>1. h = g
      BY <1>2 DEF Lifted
    <2> QED
      BY <2>1 DEF Kin
  <1>3. CASE g.armor.dash.ticks # 0 /\ g.armor.dash.up
    <2>1. h = floats
      BY <1>3 DEF Lifted
    <2>2. /\ floats.slots = g.slots /\ floats.count = g.count /\ floats.armor = g.armor
          /\ floats.world = g.world /\ floats.zero = g.zero /\ floats.game = g.game
      BY <1>1 DEF Whole
    <2>3. floats.body.prop = g.body.prop
      BY <1>1 DEF Whole
    <2>4. Whole(floats)
      BY <1>1 DEF Whole
    <2> HIDE DEF floats
    <2>5. Excused(floats)
      BY <1>1, <1>3, <2>2 DEF Excused
    <2>6. Balanced(floats)
      BY <2>2, SameSlots DEF Fit
    <2>7. Fit(floats)
      BY <2>2, <2>4, <2>5, <2>6 DEF Fit
    <2> QED
      BY <2>1, <2>2, <2>3, <2>7 DEF Kin
  <1>4. CASE g.armor.dash.ticks # 0 /\ ~g.armor.dash.up
    <2>1. h = stands
      BY <1>4 DEF Lifted
    <2>2. /\ stands.slots = g.slots /\ stands.count = g.count /\ stands.armor = g.armor
          /\ stands.world = g.world /\ stands.zero = g.zero /\ stands.game = g.game
      BY <1>1 DEF Whole
    <2>3. stands.body.gravity = g.body.gravity
      BY <1>1 DEF Whole
    <2>4. Whole(stands)
      BY <1>1 DEF Whole
    <2> HIDE DEF stands
    <2>5. Excused(g) => Excused(stands)
      BY <2>2, <2>3 DEF Excused
    <2>6. Balanced(stands)
      BY <2>2, SameSlots DEF Fit
    <2>7. Fit(stands)
      BY <2>2, <2>3, <2>4, <2>5, <2>6 DEF Fit
    <2>8. stands.armor.dash.ticks > 0
      BY <1>1, <1>4, <2>2
    <2> QED
      BY <1>4, <2>1, <2>2, <2>7, <2>8 DEF Kin
  <1> QED
    BY <1>2, <1>3, <1>4

LEMMA DashTickFit ==
    ASSUME NEW g, NEW b, Fit(g), g.world.mode = "play", g.armor.valid, ~g.body.prop
    PROVE  /\ Fit(DashTick(g, b)) /\ Kin(DashTick(g, b), g)
           /\ DashTick(g, b).body.prop => /\ DashTick(g, b).armor.dash.ticks > 0
                                          /\ ~DashTick(g, b).armor.dash.up
  <1> DEFINE g1 == Restored(g)
             g2 == Steered(g1, b)
             g3 == JumpedOff(g2, b)
             g4 == Halted(g3, b)
             g5 == StartDash(g4, b)
  <1>1. DashTick(g, b) = Lifted(g5)
    BY DEF DashTick
  <1> HIDE DEF g1, g2, g3, g4, g5
  <1>2. Calm(g1, g)
    BY RestoredCalm DEF g1, Fit
  <1>3. Calm(g2, g1)
    BY <1>2, SteeredCalm DEF g2, Calm
  <1>4. Calm(g3, g2)
    BY <1>3, JumpedOffCalm DEF g3, Calm
  <1>5. Calm(g4, g3)
    BY <1>4, HaltedCalm DEF g4, Calm
  <1>6. Calm(g5, g4)
    BY <1>5, StartDashCalm DEF g5, Calm
  <1>7. Calm(g5, g)
    BY <1>2, <1>3, <1>4, <1>5, <1>6, CalmTwice
  <1>8. Fit(g5)
    BY <1>7, CalmFit
  <1>9. Kin(g5, g) /\ g5.world.mode = "play" /\ g5.armor.valid /\ ~g5.body.prop
    BY <1>7 DEF Calm, Kin
  <1>10. Kin(Lifted(g5), g)
    BY <1>8, <1>9, LiftedFit DEF Kin
  <1> QED
    BY <1>1, <1>8, <1>9, <1>10, LiftedFit

-----------------------------------------------------------------------------
(* The slots: whoever places or removes a shot counts it *)

LEMMA LeastNatural ==
    ASSUME NEW S \in SUBSET Nat, S # {}
    PROVE  Min(S) \in S /\ \A j \in S : Min(S) <= j
  <1> DEFINE below == {p \in Nat \X Nat : p[1] < p[2]}
  <1>1. IsWellFoundedOn(below, Nat)
    BY NatLessThanWellFounded DEF OpToRel
  <1> HIDE DEF below
  <1>2. PICK m \in S : \A j \in S : <<j, m>> \notin below
    BY <1>1, WFMin
  <1>3. ASSUME NEW j \in S PROVE m <= j
    <2>1. j \in Nat /\ m \in Nat
      OBVIOUS
    <2>2. <<j, m>> \in Nat \X Nat /\ <<j, m>>[1] = j /\ <<j, m>>[2] = m
      BY <2>1
    <2> QED
      BY <1>2, <2>1, <2>2 DEF below
  <1> QED
    BY <1>3 DEF Min

LEMMA UsedFinite ==
    ASSUME NEW g
    PROVE  IsFiniteSet(Used(g)) /\ Cardinality(Used(g)) \in Nat /\ IsFiniteSet(Places)
  <1>1. IsFiniteSet(Places)
    BY FS_Interval, PartsAssumption DEF Places
  <1> QED
    BY <1>1, FS_Subset, FS_CardinalityType DEF Used

\* A shot that is removed from a slot.
LEMMA SlotFreed ==
    ASSUME NEW g, NEW h, NEW i \in Places, Whole(g), Balanced(g),
           g.slots[i] # "free", h.slots = [g.slots EXCEPT ![i] = "free"], h.count = Less(g.count)
    PROVE  Balanced(h)
  <1>1. Used(h) = Used(g) \ {i} /\ i \in Used(g)
    BY DEF Used, Whole
  <1>2. Cardinality(Used(h)) = Cardinality(Used(g)) - 1
    BY <1>1, UsedFinite, FS_RemoveElement
  <1> QED
    BY <1>2, UsedFinite DEF Balanced, Less

\* Shots that are put into free slots.
LEMMA SlotsTaken ==
    ASSUME NEW g, NEW h, NEW S \in SUBSET FreePlaces(g), Whole(g), Balanced(g),
           \A i \in Places : h.slots[i] # "free" <=> i \in S \/ g.slots[i] # "free",
           h.count = g.count + Cardinality(S)
    PROVE  Balanced(h)
  <1>1. Used(h) = Used(g) \cup S /\ Used(g) \cap S = {} /\ S \subseteq Places
    BY DEF Used, FreePlaces
  <1>2. IsFiniteSet(S) /\ Cardinality(S) \in Nat
    BY <1>1, UsedFinite, FS_Subset, FS_CardinalityType
  <1>3. Cardinality(Used(h)) = Cardinality(Used(g)) + Cardinality(S)
    <2>1. Cardinality(Used(g) \cap S) = 0
      BY <1>1, FS_EmptySet
    <2>2. Cardinality(Used(g) \cup S) =
              Cardinality(Used(g)) + Cardinality(S) - Cardinality(Used(g) \cap S)
      BY <1>2, UsedFinite, FS_Union
    <2> QED
      BY <1>1, <1>2, <2>1, <2>2, UsedFinite
  <1> QED
    BY <1>3 DEF Balanced

\* What the shots do to a moment: a routine of theirs touches nothing but
\* slots, records and the count, and the guest's flag that a shot cools down.
Shoots(h, g) ==
    /\ Whole(h) /\ Kin(h, g)
    /\ Balanced(g) => Balanced(h)
    /\ h.body = g.body /\ h.armor.valid = g.armor.valid /\ h.armor.giga = g.armor.giga
    /\ h.armor.dash = g.armor.dash

LEMMA ShootsCalm ==
    ASSUME NEW g, NEW h, Shoots(h, g)
    PROVE  Calm(h, g)
  BY DEF Shoots, Calm, Kin, Excused

LEMMA ShootsTwice ==
    ASSUME NEW g, NEW h, NEW k, Shoots(h, g), Shoots(k, h)
    PROVE  Shoots(k, g)
  BY Zenon DEF Shoots, Kin

LEMMA ShootsItself ==
    ASSUME NEW g, Whole(g)
    PROVE  Shoots(g, g)
  BY Zenon DEF Shoots, Kin

LEMMA RetireShoots ==
    ASSUME NEW g, Whole(g), NEW i \in Places
    PROVE  Shoots(RetireShot(g, i), g)
  <1> DEFINE h == RetireShot(g, i)
  <1>1. Whole(h)
    BY DEF Whole, RetireShot
  <1>2. h.world = g.world /\ h.zero = g.zero /\ h.game = g.game /\ h.body = g.body /\ h.armor = g.armor
    BY DEF Whole, RetireShot
  <1>3. h.slots = [g.slots EXCEPT ![i] = IF Owned(g, i) THEN "free" ELSE @]
    BY DEF Whole, RetireShot
  <1>4. h.count = IF Owned(g, i) THEN Less(g.count) ELSE g.count
    BY DEF Whole, RetireShot
  <1> HIDE DEF h
  <1>5. ASSUME Balanced(g) PROVE Balanced(h)
    <2>1. CASE Owned(g, i)
      BY <1>3, <1>4, <1>5, <2>1, SlotFreed DEF Owned
    <2>2. CASE ~Owned(g, i)
      <3>1. Used(h) = Used(g)
        BY <1>3, <2>2 DEF Used, Whole
      <3> QED
        BY <1>4, <1>5, <2>2, <3>1 DEF Balanced
    <2> QED
      BY <2>1, <2>2
  <1>6. Shoots(h, g)
    BY <1>1, <1>2, <1>5 DEF Shoots, Kin
  <1> QED
    BY <1>6 DEF h

LEMMA PlacedShoots ==
    ASSUME NEW g, Whole(g), NEW S \in SUBSET FreePlaces(g), NEW kind, NEW parent
    PROVE  Shoots(Placed(g, S, kind, parent), g)
  <1> DEFINE h == Placed(g, S, kind, parent)
  <1>1. Whole(h)
    BY DEF Whole, Placed
  <1>2. h.world = g.world /\ h.zero = g.zero /\ h.game = g.game /\ h.body = g.body /\ h.armor = g.armor
    BY DEF Whole, Placed
  <1>3. h.slots = [i \in Places |-> IF i \in S THEN "armor" ELSE g.slots[i]]
    BY DEF Whole, Placed
  <1>4. h.count = g.count + Cardinality(S)
    BY DEF Whole, Placed
  <1> HIDE DEF h
  <1>5. \A i \in Places : h.slots[i] # "free" <=> i \in S \/ g.slots[i] # "free"
    BY <1>3
  <1>6. Balanced(g) => Balanced(h)
    BY <1>4, <1>5, SlotsTaken
  <1>7. Shoots(h, g)
    BY <1>1, <1>2, <1>6 DEF Shoots, Kin
  <1> QED
    BY <1>7 DEF h

LEMMA AllocateShoots ==
    ASSUME NEW g, Whole(g), NEW n, NEW kind, NEW parent
    PROVE  Shoots(AllocateShots(g, n, kind, parent), g)
  <1>1. Lowest(FreePlaces(g), n) \in SUBSET FreePlaces(g)
    BY DEF Lowest
  <1> QED
    BY <1>1, PlacedShoots DEF AllocateShots

LEMMA AllRetiredShoots ==
    ASSUME NEW g, Whole(g)
    PROVE  Shoots(AllRetired(g), g)
  <1> DEFINE h == AllRetired(g)
             mine == {i \in Places : Owned(g, i)}
  <1>1. Whole(h)
    BY DEF Whole, AllRetired
  <1>2. h.world = g.world /\ h.zero = g.zero /\ h.game = g.game /\ h.body = g.body /\ h.armor = g.armor
    BY DEF Whole, AllRetired
  <1>3. h.slots = [i \in Places |-> IF i \in mine THEN "free" ELSE g.slots[i]]
    BY DEF Whole, AllRetired
  <1>4. h.count = IF g.count >= Cardinality(mine) THEN g.count - Cardinality(mine) ELSE 0
    BY DEF Whole, AllRetired
  <1> HIDE DEF h
  <1>5. ASSUME Balanced(g) PROVE Balanced(h)
    <2>1. mine \subseteq Used(g) /\ Used(g) \cap mine = mine
      BY DEF Owned, Used
    <2>2. Used(h) = Used(g) \ mine
      BY <1>3 DEF Used
    <2> HIDE DEF mine
    <2>3. IsFiniteSet(mine) /\ Cardinality(mine) \in Nat /\ Cardinality(mine) <= Cardinality(Used(g))
      BY <2>1, UsedFinite, FS_Subset, FS_CardinalityType
    <2>4. Cardinality(Used(h)) = Cardinality(Used(g)) - Cardinality(mine)
      BY <2>1, <2>2, UsedFinite, FS_Difference
    <2> QED
      BY <1>4, <1>5, <2>3, <2>4, UsedFinite DEF Balanced
  <1>6. Shoots(h, g)
    BY <1>1, <1>2, <1>5 DEF Shoots, Kin
  <1> QED
    BY <1>6 DEF h

-----------------------------------------------------------------------------
(* The buster *)

LEMMA StartBurstCalm ==
    ASSUME NEW g, Whole(g), NEW which
    PROVE  Calm(StartBurst(g, which), g)
  <1> DEFINE e == EndDash(g)
             h == [e EXCEPT !.armor.buster.burst = which, !.armor.buster.ended = FALSE,
                            !.armor.buster.fired = FALSE]
  <1>1. Calm(e, g)
    BY EndDashCalm
  <1> HIDE DEF e
  <1>2. Quiet(h, e)
    BY <1>1 DEF Calm, Quiet, Whole, Kin
  <1> HIDE DEF h
  <1>3. Calm(h, g)
    BY <1>1, <1>2, QuietCalm, CalmTwice
  <1> QED
    BY <1>3 DEF StartBurst, e, h

LEMMA EmitCalm ==
    ASSUME NEW g, Whole(g)
    PROVE  Calm(Emit(g), g)
  <1> DEFINE lead == AllocateShots(g, 1, BurstKind(g), 0)
             all == AllocateShots(lead, ChildrenOf(BurstKind(g)), 4, Min(FreePlaces(g)))
             h == [all EXCEPT !.world.cooling = TRUE]
  <1>1. Shoots(lead, g)
    BY AllocateShoots
  <1> HIDE DEF lead
  <1>2. Shoots(all, lead)
    BY <1>1, AllocateShoots DEF Shoots
  <1>3. Calm(all, g)
    BY <1>1, <1>2, ShootsTwice, ShootsCalm
  <1> HIDE DEF all
  <1>4. Quiet(h, all)
    BY <1>3 DEF Calm, Quiet, Whole, Kin
  <1> HIDE DEF h
  <1>5. Calm(h, g)
    BY <1>3, <1>4, QuietCalm, CalmTwice
  <1>6. Emit(g) = g \/ Emit(g) = h
    BY DEF Emit, h, all, lead
  <1> QED
    BY <1>5, <1>6, CalmItself

LEMMA HyperShotCalm ==
    ASSUME NEW g, Whole(g), NEW b
    PROVE  Calm(HyperShot(g, b), g)
  <1> DEFINE off == [g EXCEPT !.armor.hyper = FALSE]
             paid == [g EXCEPT !.armor.hyperEnergy = @ - 1, !.armor.buster.stored = 2]
  <1>1. Quiet(off, g) /\ Quiet(paid, g)
    BY DEF Quiet, Whole, Kin
  <1>2. HyperShot(g, b) \in {g, off, StartBurst(paid, 1)}
    BY DEF HyperShot
  <1> HIDE DEF off, paid
  <1>3. Calm(StartBurst(paid, 1), g)
    BY <1>1, StartBurstCalm, QuietCalm, CalmTwice DEF Quiet
  <1> QED
    BY <1>1, <1>2, <1>3, QuietCalm, CalmItself

LEMMA SecondAskedCalm ==
    ASSUME NEW g, Whole(g), NEW b
    PROVE  Calm(SecondAsked(g, b), g)
  <1>1. Quiet(SecondAsked(g, b), g)
    BY DEF Quiet, Kin, Whole, SecondAsked
  <1> QED
    BY <1>1, QuietCalm

LEMMA BurstOverCalm ==
    ASSUME NEW g, Whole(g)
    PROVE  Calm(BurstOver(g), g)
  <1>1. Quiet(BurstOver(g), g)
    BY DEF Quiet, Kin, Whole, BurstOver
  <1> QED
    BY <1>1, QuietCalm

LEMMA TriggeredCalm ==
    ASSUME NEW g, Whole(g), NEW b, NEW grows
    PROVE  Calm(Triggered(g, b, grows), g)
  <1> DEFINE q == g.armor.buster
             asked == [g EXCEPT !.armor.buster.queued = FALSE]
             charged == [g EXCEPT !.armor.buster.charge = @ + 1]
             stored == [g EXCEPT !.armor.buster.stored = q.charge - Charging + 1,
                                 !.armor.buster.charge = 0]
             let == [g EXCEPT !.armor.buster.charge = 0, !.world.released = q.charge > 0]
  <1>1. Quiet(asked, g) /\ Quiet(charged, g)
    BY DEF Quiet, Whole, Kin
  <1>2. Quiet(stored, g)
    BY DEF Quiet, Whole, Kin
  <1>3. Quiet(let, g)
    BY DEF Quiet, Whole, Kin
  <1>4. Triggered(g, b, grows) \in
            {g, StartBurst(asked, 2), charged, StartBurst(stored, 1), let}
    BY DEF Triggered
  <1> HIDE DEF asked, charged, stored, let
  <1>5. Calm(StartBurst(asked, 2), g) /\ Calm(StartBurst(stored, 1), g)
    BY <1>1, <1>2, StartBurstCalm, QuietCalm, CalmTwice DEF Quiet
  <1> QED
    BY <1>1, <1>3, <1>4, <1>5, QuietCalm, CalmItself

LEMMA BurstTickCalm ==
    ASSUME NEW g, Whole(g), NEW step
    PROVE  Calm(BurstTick(g, step), g)
  <1> DEFINE over == [g EXCEPT !.armor.buster.ended = TRUE,
                               !.armor.buster.stored = IF g.armor.buster.burst = 2 THEN 0 ELSE @]
             emitted == Emit(g)
             sent == [emitted EXCEPT !.armor.buster.fired = TRUE]
             h == IF step = "end" THEN over
                  ELSE IF step = "fire" /\ ~g.armor.buster.fired THEN sent ELSE g
             planted == [h EXCEPT !.body.act = "settle"]
  <1>1. BurstTick(g, step) = h \/ BurstTick(g, step) = planted
    BY DEF BurstTick
  <1>2. Quiet(over, g)
    BY DEF Quiet, Whole, Kin
  <1>3. Calm(emitted, g)
    BY EmitCalm
  <1> HIDE DEF over, emitted
  <1>4. Quiet(sent, emitted)
    BY <1>3 DEF Calm, Quiet, Whole, Kin
  <1> HIDE DEF sent
  <1>5. Calm(h, g)
    BY <1>2, <1>3, <1>4, QuietCalm, CalmTwice, CalmItself
  <1> HIDE DEF h
  <1>6. Quiet(planted, h)
    BY <1>5 DEF Calm, Quiet, Whole, Kin
  <1> HIDE DEF planted
  <1>7. Calm(planted, g)
    BY <1>5, <1>6, QuietCalm, CalmTwice
  <1> QED
    BY <1>1, <1>5, <1>7

LEMMA BusterPlayerCalm ==
    ASSUME NEW g, Whole(g), NEW b, NEW see
    PROVE  Calm(BusterPlayer(g, b, see).g, g)
  <1> DEFINE g1 == HyperShot(g, b)
             g2 == SecondAsked(g1, b)
             g3 == BurstOver(g2)
             g4 == Triggered(g3, b, see.grows)
             g5 == [g4 EXCEPT !.armor.buster.held = b.fire # "none"]
             g6 == BurstTick(g5, see.step)
  <1>1. BusterPlayer(g, b, see).g \in {BusterCancel(g), g5, g6}
    BY DEF BusterPlayer
  <1> HIDE DEF g1, g2, g3, g4, g6
  <1>2. Calm(g1, g)
    BY HyperShotCalm DEF g1
  <1>3. Calm(g2, g1)
    BY <1>2, SecondAskedCalm DEF g2, Calm
  <1>4. Calm(g3, g2)
    BY <1>3, BurstOverCalm DEF g3, Calm
  <1>5. Calm(g4, g3)
    BY <1>4, TriggeredCalm DEF g4, Calm
  <1>6. Quiet(g5, g4)
    BY <1>5 DEF Calm, Quiet, Whole, Kin
  <1> HIDE DEF g5
  <1>7. Calm(g5, g)
    BY <1>2, <1>3, <1>4, <1>5, <1>6, QuietCalm, CalmTwice
  <1>8. Calm(g6, g)
    BY <1>7, BurstTickCalm, CalmTwice DEF g6, Calm
  <1>9. Quiet(BusterCancel(g), g)
    BY DEF Quiet, Kin, Whole, BusterCancel
  <1> QED
    BY <1>1, <1>7, <1>8, <1>9, QuietCalm

-----------------------------------------------------------------------------
(* In front of the player's update *)

\* What is put down before a stage's first update needs no reason any more.
LEMMA PreparedFit ==
    ASSUME NEW g, Fit(g)
    PROVE  /\ Fit(Prepared(g)) /\ Kin(Prepared(g), g) /\ Prepared(g).armor.valid
           /\ Prepared(g).body = g.body
  <1> DEFINE h == Prepared(g)
  <1>0. Whole(g)
    BY DEF Fit
  <1>1. CASE g.armor.valid
    BY <1>1 DEF Prepared, Kin
  <1>2. CASE ~g.armor.valid
    <2>1. /\ h.slots = g.slots /\ h.count = g.count /\ h.body = g.body
          /\ h.world = g.world /\ h.zero = g.zero /\ h.game = g.game
      BY <1>0, <1>2 DEF Whole, Prepared
    <2>2. h.armor.valid = TRUE
      BY <1>0, <1>2 DEF Whole, Prepared
    <2>3. Whole(h)
      BY <1>0, <1>2 DEF Whole, Prepared, NoDash
    <2> HIDE DEF h
    <2>4. Balanced(h)
      BY <2>1, SameSlots DEF Fit
    <2>5. h.world.mode = "entry" => h.body.gravity
      BY <2>1 DEF Fit
    <2>6. h.world.mode = "play" => Excused(h)
      BY <1>2, <2>1 DEF Fit, Excused
    <2>7. Fit(h) /\ Kin(h, g)
      BY <2>1, <2>2, <2>3, <2>4, <2>5, <2>6 DEF Fit, Kin
    <2> QED
      BY <2>1, <2>2, <2>7 DEF h
  <1> QED
    BY <1>1, <1>2

\* A crash holds the body up as long as it runs.
LEMMA GigaPlayerFit ==
    ASSUME NEW g, NEW b, Fit(g), g.armor.giga > 0, g.armor.valid, ~g.body.prop
    PROVE  /\ Fit(GigaPlayer(g, b).g) /\ Kin(GigaPlayer(g, b).g, g)
           /\ ~GigaPlayer(g, b).g.body.prop
  <1> DEFINE let == [g EXCEPT !.armor.giga = 0, !.body.gravity = TRUE]
             shot == AllocateShots(g, 1, 7, 0)
             sent == [shot EXCEPT !.armor.crashed = TRUE]
             floats(h) == [h EXCEPT !.body.act = "fall", !.body.gravity = FALSE]
  <1>0. Whole(g)
    BY DEF Fit
  <1>1. CASE ~Playable(g)
    <2>1. GigaPlayer(g, b).g = let
      BY <1>1 DEF GigaPlayer
    <2>2. /\ let.slots = g.slots /\ let.count = g.count
          /\ let.world = g.world /\ let.zero = g.zero /\ let.game = g.game
      BY <1>0 DEF Whole
    <2>3. let.body.gravity = TRUE /\ let.body.prop = g.body.prop
      BY <1>0 DEF Whole
    <2>4. let.armor.valid = g.armor.valid
      BY <1>0 DEF Whole
    <2>5. Whole(let)
      BY <1>0 DEF Whole
    <2> HIDE DEF let
    <2>6. Balanced(let)
      BY <2>2, SameSlots DEF Fit
    <2> QED
      BY <2>1, <2>2, <2>3, <2>4, <2>5, <2>6 DEF Fit, Kin, Excused
  <1>2. CASE Playable(g)
    <2>1. GigaPlayer(g, b).g \in {floats(g), floats(sent)}
      BY <1>2 DEF GigaPlayer
    <2>2. ASSUME NEW h, Whole(h), Kin(h, g), Balanced(h), h.armor.giga = g.armor.giga,
                 h.armor.valid = g.armor.valid, h.body.prop = g.body.prop
          PROVE  Fit(floats(h)) /\ Kin(floats(h), g) /\ ~floats(h).body.prop
      <3> DEFINE k == floats(h)
      <3>1. /\ k.slots = h.slots /\ k.count = h.count /\ k.armor = h.armor
            /\ k.world = h.world /\ k.zero = h.zero /\ k.game = h.game
        BY <2>2 DEF Whole
      <3>2. k.body.prop = h.body.prop
        BY <2>2 DEF Whole
      <3>3. Whole(k)
        BY <2>2 DEF Whole
      <3> HIDE DEF k
      <3>4. Balanced(k)
        BY <2>2, <3>1, SameSlots
      <3>5. Excused(k)
        BY <2>2, <3>1 DEF Excused
      <3>6. k.world.mode = "play"
        BY <1>2, <2>2, <3>1 DEF Kin, Playable
      <3>7. Fit(k) /\ Kin(k, g) /\ ~k.body.prop
        BY <2>2, <3>1, <3>2, <3>3, <3>4, <3>5, <3>6 DEF Fit, Kin
      <3> QED
        BY <3>7 DEF k
    <2>3. Shoots(shot, g)
      BY <1>0, AllocateShoots
    <2> HIDE DEF shot
    <2>4. Quiet(sent, shot)
      BY <2>3 DEF Shoots, Quiet, Whole, Kin
    <2> HIDE DEF sent
    <2>5. Whole(sent) /\ Kin(sent, g)
      BY <2>3, <2>4 DEF Quiet, Shoots, Kin
    <2>6. /\ sent.armor.giga = g.armor.giga /\ sent.armor.valid = g.armor.valid
          /\ sent.body.prop = g.body.prop
      BY <2>3, <2>4 DEF Quiet, Shoots
    <2>7. Balanced(sent)
      BY <2>3, <2>4, SameSlots DEF Quiet, Shoots, Fit
    <2>8. Fit(floats(g)) /\ Kin(floats(g), g) /\ ~floats(g).body.prop
      <3>1. Kin(g, g)
        BY DEF Kin
      <3> QED
        BY <1>0, <2>2, <3>1 DEF Fit
    <2>9. Fit(floats(sent)) /\ Kin(floats(sent), g) /\ ~floats(sent).body.prop
      BY <2>2, <2>5, <2>6, <2>7
    <2> HIDE DEF floats
    <2> QED
      BY <2>1, <2>8, <2>9
  <1> QED
    BY <1>1, <1>2

LEMMA PrePlayerFit ==
    ASSUME NEW g, NEW b, NEW see, Fit(g), ~g.body.prop
    PROVE  LET h == PrePlayer(g, b, see).g
           IN  /\ Fit(h) /\ Kin(h, g)
               /\ h.body.prop => /\ Active(g) = "x" /\ h.armor.dash.ticks > 0
                                 /\ ~h.armor.dash.up
  <1> DEFINE prepared == Prepared(g)
             ticked == BarrierTick(prepared, see.appeared)
             gone == AllRetired(ticked)
             down == [gone EXCEPT !.armor.barrier = NoBarrier]
             k == IF Alive(g) THEN StaleDropped(ticked) ELSE down
             hook == BusterPlayer(k, b, see)
             shot == hook.g
             healed == HealTick(shot, hook.pad)
             ended == EndDash(k)
             cancelled == BusterCancel(ended)
             h == PrePlayer(g, b, see).g
  <1>1. CASE Active(g) # "x"
    BY <1>1 DEF PrePlayer, Kin
  <1>2. CASE Active(g) = "x"
    <2>1. /\ k.armor.giga > 0 => h = GigaPlayer(k, b).g
          /\ ~(k.armor.giga > 0) /\ ~Playable(g) => h \in {ended, cancelled}
          /\ ~(k.armor.giga > 0) /\ Playable(g) => h = DashTick(healed, hook.pad)
      BY <1>2 DEF PrePlayer
    <2> SUFFICES /\ Fit(h) /\ Kin(h, g)
                 /\ h.body.prop => /\ Active(g) = "x" /\ h.armor.dash.ticks > 0
                                   /\ ~h.armor.dash.up
      OBVIOUS
    <2> HIDE DEF h
    <2>2. /\ Fit(prepared) /\ Kin(prepared, g) /\ prepared.armor.valid
          /\ prepared.body = g.body
      BY PreparedFit
    <2> HIDE DEF prepared
    <2>3. Quiet(ticked, prepared)
      BY <2>2 DEF Quiet, Kin, Whole, Fit, BarrierTick, NoBarrier
    <2> HIDE DEF ticked
    <2>4. Calm(k, ticked)
      <3>1. Quiet(StaleDropped(ticked), ticked)
        BY <2>3 DEF Quiet, Kin, Whole, StaleDropped
      <3>2. Shoots(gone, ticked)
        BY <2>3, AllRetiredShoots DEF Quiet
      <3> HIDE DEF gone
      <3>3. Quiet(down, gone)
        BY <3>2 DEF Shoots, Quiet, Kin, Whole
      <3> HIDE DEF down
      <3> QED
        BY <3>1, <3>2, <3>3, QuietCalm, ShootsCalm, CalmTwice
    <2>5. Fit(k) /\ Kin(k, g) /\ k.armor.valid /\ ~k.body.prop
      <3>1. Calm(k, prepared)
        BY <2>3, <2>4, QuietCalm, CalmTwice
      <3>2. Fit(k)
        BY <2>2, <3>1, CalmFit
      <3>3. Kin(k, g)
        BY <2>2, <3>1 DEF Calm, Kin
      <3>4. k.armor.valid = prepared.armor.valid /\ k.body.prop \in {g.body.prop, FALSE}
        BY <2>2, <3>1 DEF Calm
      <3> QED
        BY <2>2, <3>2, <3>3, <3>4
    <2> HIDE DEF k
    <2>6. Whole(k)
      BY <2>5 DEF Fit
    <2>7. CASE k.armor.giga > 0
      <3>1. Kin(GigaPlayer(k, b).g, g)
        BY <2>5, <2>7, GigaPlayerFit DEF Kin
      <3> QED
        BY <2>1, <2>5, <2>7, <3>1, GigaPlayerFit
    <2>8. CASE ~(k.armor.giga > 0) /\ ~Playable(g)
      <3>1. Calm(ended, k)
        BY <2>6, EndDashCalm
      <3> HIDE DEF ended
      <3>2. Quiet(cancelled, ended)
        BY <3>1 DEF Calm, Quiet, Kin, Whole, BusterCancel
      <3> HIDE DEF cancelled
      <3>3. Calm(h, k)
        BY <2>1, <2>8, <3>1, <3>2, QuietCalm, CalmTwice
      <3>4. Fit(h) /\ Kin(h, g)
        BY <2>5, <3>3, CalmFit DEF Calm, Kin
      <3>5. ~h.body.prop
        BY <2>5, <3>3 DEF Calm
      <3> QED
        BY <3>4, <3>5
    <2>9. CASE ~(k.armor.giga > 0) /\ Playable(g)
      <3>1. Calm(shot, k)
        BY <2>6, BusterPlayerCalm
      <3> HIDE DEF shot
      <3>2. Quiet(healed, shot)
        BY <3>1 DEF Calm, Quiet, Kin, Whole, HealTick
      <3> HIDE DEF healed
      <3>3. Calm(healed, k)
        BY <3>1, <3>2, QuietCalm, CalmTwice
      <3>4. Fit(healed) /\ Kin(healed, g)
        BY <2>5, <3>3, CalmFit DEF Calm, Kin
      <3>5. healed.armor.valid /\ ~healed.body.prop /\ healed.world.mode = "play"
        BY <2>5, <2>9, <3>3, <3>4 DEF Calm, Kin, Playable
      <3>6. Kin(DashTick(healed, hook.pad), g)
        BY <3>4, <3>5, DashTickFit DEF Kin
      <3> QED
        BY <1>2, <2>1, <2>9, <3>4, <3>5, <3>6, DashTickFit
    <2> QED
      BY <2>7, <2>8, <2>9
  <1> QED
    BY <1>1, <1>2

-----------------------------------------------------------------------------
(* Zero in the air, and low passages *)

LEMMA EndAirDashCalm ==
    ASSUME NEW g, Whole(g)
    PROVE  /\ Calm(EndAirDash(g), g) /\ EndAirDash(g).body.hp = g.body.hp
           /\ EndAirDash(g).armor = g.armor
  <1> DEFINE h == EndAirDash(g)
  <1>1. Whole(h)
    BY DEF Whole, EndAirDash
  <1>2. /\ h.slots = g.slots /\ h.count = g.count /\ h.armor = g.armor
        /\ h.world = g.world /\ h.game = g.game
    BY DEF Whole, EndAirDash
  <1>3. /\ h.zero.active = g.zero.active /\ h.zero.hp = g.zero.hp /\ h.zero.seeded = g.zero.seeded
        /\ h.zero.phase = g.zero.phase /\ h.zero.modern = g.zero.modern
    BY DEF Whole, EndAirDash
  <1>4. h.body.gravity = g.body.gravity /\ h.body.hp = g.body.hp
    BY DEF Whole, EndAirDash
  <1>5. h.body.prop \in {g.body.prop, FALSE}
    BY DEF Whole, EndAirDash
  <1> HIDE DEF h
  <1>6. Excused(g) => Excused(h)
    BY <1>2, <1>4 DEF Excused
  <1>7. Calm(h, g)
    BY <1>1, <1>2, <1>3, <1>4, <1>5, <1>6, SameSlots DEF Calm, Kin
  <1> QED
    BY <1>2, <1>4, <1>7 DEF h

LEMMA MovementTickFit ==
    ASSUME NEW g, NEW b, Fit(g)
    PROVE  LET h == MovementTick(g, b)
           IN  /\ Fit(h) /\ Kin(h, g)
               /\ ~Modern(g) => h = g
               /\ Modern(g) /\ ~g.body.prop /\ h.body.prop => h.zero.dash > 0
  <1> DEFINE ended == EndAirDash(g)
             rested == [ended EXCEPT !.zero.jumpUsed = FALSE, !.zero.dashUsed = FALSE]
             landed == Landed(g)
             air == ~g.body.ground /\ (Airborne(g) \/ landed.zero.dash > 0)
             off == EndAirDash(landed)
             jumped == [off EXCEPT !.zero.jumpUsed = TRUE, !.body.act = "jump",
                                   !.body.gravity = TRUE]
             stopped == Stopped(landed, b)
             dashed == Dashed(stopped, b, air)
             stood == [dashed EXCEPT !.body.prop = TRUE]
             h == MovementTick(g, b)
  <1>1. CASE ~Modern(g)
    BY <1>1 DEF MovementTick, Kin
  <1>2. CASE Modern(g)
    <2>1. h \in {ended, jumped} \/ h = Propped(dashed)
      BY <1>2 DEF MovementTick, AirJump
    <2> HIDE DEF h
    <2>2. Calm(ended, g)
      BY EndAirDashCalm DEF Fit
    <2>3. landed = rested \/ landed = g
      BY DEF Landed
    <2> HIDE DEF landed, ended
    <2>4. Quiet(rested, ended)
      BY <2>2 DEF Calm, Quiet, Kin, Whole
    <2> HIDE DEF rested
    <2>5. Calm(landed, g)
      BY <2>2, <2>3, <2>4, QuietCalm, CalmTwice, CalmItself DEF Fit
    <2>6. Calm(off, landed)
      BY <2>5, EndAirDashCalm DEF Calm
    <2>7. stopped \in {off, landed}
      BY DEF Stopped
    <2> HIDE DEF off, stopped
    <2>8. Calm(off, g)
      BY <2>5, <2>6, CalmTwice
    <2>9. Calm(jumped, off)
      <3>1. Whole(jumped)
        BY <2>8 DEF Calm, Whole
      <3>2. /\ jumped.slots = off.slots /\ jumped.count = off.count /\ jumped.armor = off.armor
            /\ jumped.world = off.world /\ jumped.game = off.game
        BY <2>8 DEF Calm, Whole
      <3>3. /\ jumped.zero.active = off.zero.active /\ jumped.zero.hp = off.zero.hp
            /\ jumped.zero.seeded = off.zero.seeded /\ jumped.zero.phase = off.zero.phase
            /\ jumped.zero.modern = off.zero.modern
        BY <2>8 DEF Calm, Whole
      <3>4. jumped.body.gravity = TRUE /\ jumped.body.prop = off.body.prop
        BY <2>8 DEF Calm, Whole
      <3> HIDE DEF jumped
      <3> QED
        BY <3>1, <3>2, <3>3, <3>4, SameSlots DEF Calm, Kin, Excused
    <2>10. Calm(stopped, g)
      BY <2>5, <2>7, <2>8
    <2>11. Quiet(dashed, stopped)
      BY <2>10 DEF Calm, Quiet, Kin, Whole, Dashed
    <2> HIDE DEF jumped, dashed
    <2>12. Calm(dashed, g)
      BY <2>10, <2>11, QuietCalm, CalmTwice
    <2>13. CASE h \in {ended, jumped, dashed}
      <3>1. Calm(h, g)
        BY <2>2, <2>8, <2>9, <2>12, <2>13, CalmTwice
      <3>2. Fit(h) /\ Kin(h, g)
        BY <3>1, CalmFit DEF Calm
      <3>3. ~g.body.prop => ~h.body.prop
        BY <3>1 DEF Calm
      <3> QED
        BY <1>2, <3>2, <3>3 DEF h
    <2>14. CASE h = stood /\ dashed.zero.dash > 0
      <3>1. /\ stood.slots = dashed.slots /\ stood.count = dashed.count
            /\ stood.armor = dashed.armor /\ stood.world = dashed.world
            /\ stood.zero = dashed.zero /\ stood.game = dashed.game
        BY <2>12 DEF Calm, Whole
      <3>2. stood.body.gravity = dashed.body.gravity
        BY <2>12 DEF Calm, Whole
      <3>3. Whole(stood)
        BY <2>12 DEF Calm, Whole
      <3> HIDE DEF stood
      <3>4. Fit(dashed) /\ Kin(dashed, g)
        BY <2>12, CalmFit DEF Calm
      <3>5. Balanced(stood)
        BY <3>1, <3>4, SameSlots DEF Fit
      <3>6. Excused(dashed) => Excused(stood)
        BY <3>1, <3>2 DEF Excused
      <3>7. Fit(stood) /\ Kin(stood, g)
        BY <3>1, <3>2, <3>3, <3>4, <3>5, <3>6 DEF Fit, Kin
      <3> QED
        BY <1>2, <2>14, <3>1, <3>7 DEF h
    <2>15. h \in {ended, jumped, dashed} \/ (h = stood /\ dashed.zero.dash > 0)
      BY <2>1 DEF Propped
    <2> QED
      BY <2>13, <2>14, <2>15
  <1> QED
    BY <1>1, <1>2

-----------------------------------------------------------------------------
(* Behind the player's update *)

\* Zero's dash keeps its pretended ground for the update alone.
LEMMA MovementEndCalm ==
    ASSUME NEW g, Whole(g)
    PROVE  LET h == MovementEnd(g)
           IN  /\ Calm(h, g) /\ h.body.hp = g.body.hp /\ h.armor = g.armor
               /\ Modern(g) /\ g.zero.dash # 0 => h.body.prop = FALSE
  <1> DEFINE off == [g EXCEPT !.body.prop = FALSE]
             ended == EndAirDash(off)
             goes == [off EXCEPT !.zero.dash = @ - 1]
             h == MovementEnd(g)
  <1>1. h \in {g, ended, goes} /\ (Modern(g) /\ g.zero.dash # 0 => h \in {ended, goes})
    BY DEF MovementEnd
  <1> SUFFICES /\ Calm(h, g) /\ h.body.hp = g.body.hp /\ h.armor = g.armor
               /\ Modern(g) /\ g.zero.dash # 0 => h.body.prop = FALSE
    OBVIOUS
  <1> HIDE DEF h
  <1>2. Whole(off)
    BY DEF Whole
  <1>3. /\ off.slots = g.slots /\ off.count = g.count /\ off.armor = g.armor
        /\ off.world = g.world /\ off.zero = g.zero /\ off.game = g.game
    BY DEF Whole
  <1>4. off.body.gravity = g.body.gravity /\ off.body.hp = g.body.hp
    BY DEF Whole
  <1>5. off.body.prop = FALSE
    BY DEF Whole
  <1> HIDE DEF off
  <1>6. Calm(off, g)
    BY <1>2, <1>3, <1>4, <1>5, SameSlots DEF Calm, Kin, Excused
  <1>7. /\ Calm(ended, off) /\ ended.body.hp = off.body.hp /\ ended.armor = off.armor
        /\ ended.body.prop = FALSE
    BY <1>2, <1>5, EndAirDashCalm DEF Calm
  <1> HIDE DEF ended
  <1>8. Quiet(goes, off) /\ goes.body = off.body /\ goes.armor = off.armor
    BY <1>2 DEF Quiet, Kin, Whole
  <1> HIDE DEF goes
  <1>9. Calm(ended, g) /\ Calm(goes, g)
    BY <1>6, <1>7, <1>8, QuietCalm, CalmTwice
  <1> QED
    BY <1>1, <1>3, <1>4, <1>5, <1>7, <1>8, <1>9, CalmItself

\* X's dash too; and it ends before it would leave the body floating.
LEMMA PartsPlayerEndCalm ==
    ASSUME NEW g, Whole(g)
    PROVE  LET h == PartsPlayerEnd(g)
           IN  /\ Calm(h, g) /\ h.body.hp = g.body.hp
               /\ Active(g) = "x" /\ g.armor.dash.ticks > 0 /\ ~g.armor.dash.up => ~h.body.prop
  <1> DEFINE over == EndDash(g)
             fell == [over EXCEPT !.body.act = "fall"]
             rests == [g EXCEPT !.armor.dash.rest = Less(@)]
             k == IF g.armor.dash.rest = 1 THEN fell ELSE rests
             off == [k EXCEPT !.body.prop = FALSE]
             p == IF k.armor.dash.up THEN k ELSE off
             flies == [p EXCEPT !.armor.dash.ticks = @ - 1]
             h == PartsPlayerEnd(g)
  <1>1. CASE Active(g) # "x"
    BY <1>1, CalmItself DEF PartsPlayerEnd
  <1>2. CASE Active(g) = "x"
    <2>1. /\ k.armor.dash.ticks = 0 => h = k
          /\ k.armor.dash.ticks # 0 =>
                \/ h \in {EndDash(p), DashRecovery(p)}
                \/ h = flies /\ k.armor.dash.ticks # 1
      BY <1>2 DEF PartsPlayerEnd
    <2> SUFFICES /\ Calm(h, g) /\ h.body.hp = g.body.hp
                 /\ g.armor.dash.ticks > 0 /\ ~g.armor.dash.up => ~h.body.prop
      OBVIOUS
    <2> HIDE DEF h
    <2>2. Calm(over, g) /\ over.body.hp = g.body.hp
      BY EndDashCalm
    <2>3. g.armor.dash.rest = 1 => over.body.prop = FALSE
      BY Zenon, EndDashCalm
    <2> HIDE DEF over
    <2>4. Quiet(fell, over) /\ fell.body.hp = over.body.hp
      BY <2>2 DEF Calm, Quiet, Kin, Whole
    <2>5. Quiet(rests, g) /\ rests.body.hp = g.body.hp
      BY DEF Quiet, Kin, Whole
    <2> HIDE DEF fell, rests
    <2>6. Calm(k, g) /\ k.body.hp = g.body.hp
      BY <2>2, <2>4, <2>5, QuietCalm, CalmTwice
    <2>7. \/ k.body.prop = FALSE
          \/ k.armor.dash.ticks = g.armor.dash.ticks /\ k.armor.dash.up = g.armor.dash.up
      BY <2>3, <2>4, <2>5 DEF Quiet
    <2> HIDE DEF k
    <2>8. Whole(k)
      BY <2>6 DEF Calm
    <2>9. Whole(off)
      BY <2>8 DEF Whole
    <2>10. /\ off.slots = k.slots /\ off.count = k.count /\ off.armor = k.armor
           /\ off.world = k.world /\ off.zero = k.zero /\ off.game = k.game
      BY <2>8 DEF Whole
    <2>11. off.body.gravity = k.body.gravity /\ off.body.hp = k.body.hp
      BY <2>8 DEF Whole
    <2>12. off.body.prop = FALSE
      BY <2>8 DEF Whole
    <2> HIDE DEF off
    <2>13. Calm(off, k)
      BY <2>9, <2>10, <2>11, <2>12, SameSlots DEF Calm, Kin, Excused
    <2>14. /\ Calm(p, k) /\ p.body.hp = k.body.hp /\ p.armor.dash = k.armor.dash
           /\ k.body.prop = FALSE \/ ~k.armor.dash.up => p.body.prop = FALSE
      BY <2>8, <2>10, <2>11, <2>12, <2>13, CalmItself
    <2> HIDE DEF p
    <2>15. Whole(p)
      BY <2>14 DEF Calm
    <2>16. /\ Calm(EndDash(p), p) /\ EndDash(p).body.hp = p.body.hp
           /\ Calm(DashRecovery(p), p) /\ DashRecovery(p).body.hp = p.body.hp
      BY <2>15, EndDashCalm, DashRecoveryCalm
    <2>17. ASSUME h = flies, k.armor.dash.ticks \notin {0, 1}
           PROVE  Calm(flies, p) /\ flies.body.hp = p.body.hp
      <3>1. /\ flies.slots = p.slots /\ flies.count = p.count /\ flies.body = p.body
            /\ flies.world = p.world /\ flies.zero = p.zero /\ flies.game = p.game
        BY <2>15 DEF Whole
      <3>2. flies.armor.valid = p.armor.valid /\ flies.armor.giga = p.armor.giga
        BY <2>15 DEF Whole
      <3>3. /\ flies.armor.dash.up = p.armor.dash.up
            /\ flies.armor.dash.ticks = p.armor.dash.ticks - 1
        BY <2>15 DEF Whole
      <3>4. p.armor.dash.ticks \in Nat /\ p.armor.dash.ticks > 1
        BY <2>14, <2>15, <2>17 DEF Whole
      <3>5. Whole(flies)
        BY <2>15, <3>4 DEF Whole
      <3> HIDE DEF flies
      <3>6. Excused(p) => Excused(flies)
        BY <3>1, <3>2, <3>3, <3>4 DEF Excused
      <3> QED
        BY <3>1, <3>2, <3>5, <3>6, SameSlots DEF Calm, Kin
    <2> HIDE DEF flies
    <2>18. CASE h = k /\ k.armor.dash.ticks = 0
      <3>1. g.armor.dash.ticks > 0 => k.body.prop = FALSE
        BY <2>7, <2>18
      <3> QED
        BY <2>6, <2>18, <3>1
    <2>19. CASE h # k \/ k.armor.dash.ticks # 0
      <3>1. Calm(h, p) /\ h.body.hp = p.body.hp
        BY <2>1, <2>16, <2>17, <2>19
      <3>2. Calm(h, g)
        BY <2>6, <2>14, <3>1, CalmTwice
      <3>3. ~g.armor.dash.up => p.body.prop = FALSE
        BY <2>7, <2>14
      <3>4. ~g.armor.dash.up => ~h.body.prop
        BY <3>1, <3>3 DEF Calm
      <3> QED
        BY <2>6, <2>14, <3>1, <3>2, <3>4
    <2> QED
      BY <2>18, <2>19
  <1> QED
    BY <1>1, <1>2

-----------------------------------------------------------------------------
(* The shots, one slot after the other *)

LEMMA GuestShotShoots ==
    ASSUME NEW g, Whole(g), NEW what, what = "free" \/ FreePlaces(g) # {}
    PROVE  Shoots(GuestShot(g, what), g)
  <1> DEFINE i == Min(FreePlaces(g))
             h == [g EXCEPT !.slots[i] = what, !.count = @ + 1]
  <1>1. CASE what = "free"
    BY <1>1, ShootsItself DEF GuestShot
  <1>2. CASE what # "free"
    <2>1. GuestShot(g, what) = h
      BY <1>2 DEF GuestShot
    <2>2. i \in FreePlaces(g) /\ i \in Places
      BY <1>2, LeastNatural, PartsAssumption DEF FreePlaces, Places
    <2> HIDE DEF i
    <2>3. Whole(h)
      BY DEF Whole
    <2>4. /\ h.world = g.world /\ h.zero = g.zero /\ h.game = g.game /\ h.body = g.body
          /\ h.armor = g.armor
      BY DEF Whole
    <2>5. h.slots = [g.slots EXCEPT ![i] = what] /\ h.count = g.count + 1
      BY DEF Whole
    <2> HIDE DEF h
    <2>6. Cardinality({i}) = 1 /\ {i} \in SUBSET FreePlaces(g)
      BY <2>2, FS_Singleton
    <2>7. \A j \in Places : h.slots[j] # "free" <=> j \in {i} \/ g.slots[j] # "free"
      BY <1>2, <2>2, <2>5 DEF Whole
    <2>8. Balanced(g) => Balanced(h)
      BY <2>5, <2>6, <2>7, SlotsTaken
    <2>9. Shoots(h, g)
      BY <2>3, <2>4, <2>8 DEF Shoots, Kin
    <2> QED
      BY <2>1, <2>9
  <1> QED
    BY <1>1, <1>2

LEMMA TakenShoots ==
    ASSUME NEW g, Whole(g), NEW i \in Places
    PROVE  Shoots(Taken(g, i), g)
  <1> DEFINE h == Taken(g, i)
  <1>1. Whole(h)
    BY DEF Whole, Taken
  <1>2. /\ h.world = g.world /\ h.zero = g.zero /\ h.game = g.game /\ h.body = g.body
        /\ h.armor = g.armor /\ h.count = g.count
    BY DEF Whole, Taken
  <1>3. \/ h.slots = g.slots
        \/ /\ g.slots[i] # "free"
           /\ h.slots = [g.slots EXCEPT ![i] = "armor"] \/ h.slots = [g.slots EXCEPT ![i] = "native"]
    BY DEF Whole, Taken
  <1> HIDE DEF h
  <1>4. Used(h) = Used(g)
    BY <1>3 DEF Used, Whole
  <1>5. Shoots(h, g)
    BY <1>1, <1>2, <1>4 DEF Shoots, Kin, Balanced
  <1> QED
    BY <1>5 DEF h

\* Whatever is written into a record, the slots stay.
LEMMA RecordShoots ==
    ASSUME NEW g, Whole(g), NEW i, NEW v
    PROVE  /\ Shoots([g EXCEPT !.shots[i] = v], g)
           /\ Shoots([g EXCEPT !.shots[i].split = v], g)
  <1> DEFINE h == [g EXCEPT !.shots[i] = v]
             k == [g EXCEPT !.shots[i].split = v]
  <1>1. Whole(h) /\ Whole(k)
    BY DEF Whole
  <1>2. /\ h.world = g.world /\ h.zero = g.zero /\ h.game = g.game /\ h.body = g.body
        /\ h.armor = g.armor /\ h.slots = g.slots /\ h.count = g.count
    BY DEF Whole
  <1>3. /\ k.world = g.world /\ k.zero = g.zero /\ k.game = g.game /\ k.body = g.body
        /\ k.armor = g.armor /\ k.slots = g.slots /\ k.count = g.count
    BY DEF Whole
  <1> HIDE DEF h, k
  <1>4. Shoots(h, g) /\ Shoots(k, g)
    BY <1>1, <1>2, <1>3, SameSlots DEF Shoots, Kin
  <1> QED
    BY <1>4 DEF h, k

LEMMA ShotStepShoots ==
    ASSUME NEW g, Whole(g), NEW i \in Places, NEW see
    PROVE  Shoots(ShotStep(g, i, see), g)
  <1> DEFINE others == {j \in Places \ {i} : g.shots[j].kind = 1}
             cross == [g EXCEPT !.shots[i] = [NoRecord EXCEPT !.kind = 5]]
             alone == [g EXCEPT !.shots[i] = [NoRecord EXCEPT !.kind = 6]]
             halves == [g EXCEPT !.shots[i].split = TRUE]
             h == ShotStep(g, i, see)
  <1>1. \/ h \in {RetireShot(g, i), alone, AllocateShots(halves, 5, 6, 0), g}
        \/ others # {} /\ h = RetireShot(cross, Min(others))
    BY DEF ShotStep, Crossed
  <1>2. Shoots(cross, g) /\ Shoots(alone, g) /\ Shoots(halves, g)
    BY RecordShoots
  <1> HIDE DEF cross, alone, halves
  <1>3. others # {} => Min(others) \in Places
    BY LeastNatural, PartsAssumption DEF Places
  <1> HIDE DEF others
  <1>4. others # {} => Shoots(RetireShot(cross, Min(others)), g)
    BY <1>2, <1>3, RetireShoots, ShootsTwice DEF Shoots
  <1>5. Shoots(AllocateShots(halves, 5, 6, 0), g)
    BY <1>2, AllocateShoots, ShootsTwice DEF Shoots
  <1> QED
    BY <1>1, <1>2, <1>4, <1>5, RetireShoots, ShootsItself

LEMMA PartsShotTickShoots ==
    ASSUME NEW g, Whole(g), NEW i \in Places, NEW see
    PROVE  Shoots(PartsShotTick(g, i, see), g)
  <1> DEFINE h == Taken(g, i)
  <1>1. Shoots(h, g)
    BY TakenShoots
  <1> HIDE DEF h
  <1>2. Shoots(ShotStep(h, i, see), g)
    BY <1>1, ShotStepShoots, ShootsTwice DEF Shoots
  <1> QED
    BY <1>1, <1>2 DEF PartsShotTick, h

\* after[i] is the moment behind the update of slot i.
Updates(after, g, sees, n) ==
    after = [i \in 0 .. n |-> IF i = 0 THEN g ELSE PartsShotTick(after[i - 1], i, sees[i])]

\* The updates of all slots: the first one that would not be a shot's doing
\* would follow one that is.
LEMMA AllShotsShoot ==
    ASSUME NEW g, Whole(g), NEW sees, NEW after, Updates(after, g, sees, ShotSlots)
    PROVE  Shoots(after[ShotSlots], g)
  <1> DEFINE Bad == {i \in 0 .. ShotSlots : ~Shoots(after[i], g)}
  <1>1. SUFFICES ASSUME Bad # {} PROVE FALSE
    BY PartsAssumption
  <1>2. Bad \in SUBSET Nat
    BY PartsAssumption
  <1> DEFINE i == Min(Bad)
  <1>3. i \in Bad /\ \A j \in Bad : i <= j
    BY <1>1, <1>2, LeastNatural
  <1> HIDE DEF i
  <1>4. after[0] = g
    BY PartsAssumption DEF Updates
  <1>5. i \in Places /\ i - 1 \in 0 .. ShotSlots /\ i - 1 \notin Bad
    BY <1>3, <1>4, ShootsItself, PartsAssumption DEF Places
  <1>6. after[i] = PartsShotTick(after[i - 1], i, sees[i])
    BY <1>5, PartsAssumption DEF Places, Updates
  <1>7. Shoots(after[i - 1], g)
    BY <1>5
  <1>8. Shoots(after[i], g)
    BY <1>5, <1>6, <1>7, PartsShotTickShoots, ShootsTwice DEF Shoots
  <1> QED
    BY <1>3, <1>8

-----------------------------------------------------------------------------
(* In front of the scheduler *)

\* What the handler in front of the scheduler leaves: a moment as fit as the
\* one it got, of the same hunters in the same part of the game.
Framed(h, g) ==
    /\ Fit(h) /\ h.zero = g.zero /\ h.game = g.game /\ h.world.mode = g.world.mode
    /\ h.body.hp = g.body.hp /\ h.body.prop = g.body.prop

LEMMA QuietFramed ==
    ASSUME NEW g, NEW h, NEW k, Framed(h, g), Quiet(k, h), k.zero = h.zero,
           k.body.hp = h.body.hp
    PROVE  Framed(k, g)
  <1>1. Fit(k)
    BY QuietCalm, CalmFit DEF Framed
  <1> QED
    BY <1>1 DEF Framed, Quiet, Kin

\* The armor of a hunter without a stage, or whose stage has not begun.
LEMMA PutAwayFramed ==
    ASSUME NEW g, Fit(g), ~InStage(g)
    PROVE  /\ ~Staged(g) => Framed([g EXCEPT !.armor = NoArmor,
                                             !.shots = [i \in Places |-> NoRecord]], g)
           /\ Staged(g) => Framed([Shut(g) EXCEPT !.armor.valid = FALSE, !.armor.seen = FALSE], g)
  <1>0. Whole(g)
    BY DEF Fit
  <1>1. ASSUME ~Staged(g)
        PROVE  Framed([g EXCEPT !.armor = NoArmor, !.shots = [i \in Places |-> NoRecord]], g)
    <2> DEFINE h == [g EXCEPT !.armor = NoArmor, !.shots = [i \in Places |-> NoRecord]]
    <2>1. /\ h.slots = g.slots /\ h.count = g.count /\ h.body = g.body
          /\ h.world = g.world /\ h.zero = g.zero /\ h.game = g.game
      BY <1>0 DEF Whole
    <2>2. Whole(h)
      BY <1>0 DEF Whole, NoArmor, NoDash
    <2> HIDE DEF h
    <2>3. Balanced(h)
      BY <2>1, SameSlots DEF Fit
    <2>4. h.world.mode = "menu"
      BY <1>1, <2>1 DEF Staged
    <2>5. Framed(h, g)
      BY <2>1, <2>2, <2>3, <2>4 DEF Framed, Fit
    <2> QED
      BY <2>5 DEF h
  <1>2. ASSUME Staged(g)
        PROVE  Framed([Shut(g) EXCEPT !.armor.valid = FALSE, !.armor.seen = FALSE], g)
    <2> DEFINE s == Shut(g)
               h == [s EXCEPT !.armor.valid = FALSE, !.armor.seen = FALSE]
    <2>1. /\ s.slots = g.slots /\ s.count = g.count /\ s.body = g.body
          /\ s.zero = g.zero /\ s.game = g.game
      BY <1>0 DEF Whole, Shut
    <2>2. s.world.mode = g.world.mode /\ Whole(s)
      BY <1>0 DEF Whole, Shut
    <2> HIDE DEF s
    <2>3. /\ h.slots = s.slots /\ h.count = s.count /\ h.body = s.body /\ h.world = s.world
          /\ h.zero = s.zero /\ h.game = s.game /\ Whole(h)
      BY <2>2 DEF Whole
    <2> HIDE DEF h
    <2>4. Balanced(h)
      BY <2>1, <2>3, SameSlots DEF Fit
    <2>5. g.world.mode = "entry"
      BY <1>0, <1>2 DEF Staged, InStage, Whole
    <2>6. Framed(h, g)
      BY <2>1, <2>2, <2>3, <2>4, <2>5 DEF Framed, Fit
    <2> QED
      BY <2>6 DEF h, s
  <1> QED
    BY <1>1, <1>2

\* The crash that is cut off is the reason for a body without weight.
LEMMA ShutFramed ==
    ASSUME NEW g, Fit(g)
    PROVE  Framed(Shut(g), g)
  <1> DEFINE h == Shut(g)
  <1>0. Whole(g)
    BY DEF Fit
  <1>1. /\ h.slots = g.slots /\ h.count = g.count /\ h.body = g.body
        /\ h.zero = g.zero /\ h.game = g.game
    BY <1>0 DEF Whole, Shut
  <1>2. h.world.mode = g.world.mode
    BY <1>0 DEF Whole, Shut
  <1>3. h.world.cut = (g.world.cut \/ g.armor.giga > 0)
    BY <1>0 DEF Whole, Shut
  <1>4. h.armor.dash = g.armor.dash /\ h.armor.valid = g.armor.valid
    BY <1>0 DEF Whole, Shut
  <1>5. Whole(h)
    BY <1>0 DEF Whole, Shut
  <1> HIDE DEF h
  <1>6. Balanced(h)
    BY <1>1, SameSlots DEF Fit
  <1>7. Excused(g) => Excused(h)
    BY <1>1, <1>3, <1>4 DEF Excused
  <1>8. g.body.gravity \/ g.world.cut => h.body.gravity \/ h.world.cut
    BY <1>1, <1>3
  <1>9. Framed(h, g)
    BY <1>1, <1>2, <1>4, <1>5, <1>6, <1>7, <1>8 DEF Framed, Fit
  <1> QED
    BY <1>9 DEF h

LEMMA EndCrashFramed ==
    ASSUME NEW g, Fit(g)
    PROVE  Framed(EndCrash(g), g)
  <1> DEFINE h == EndCrash(g)
  <1>0. Whole(g)
    BY DEF Fit
  <1>1. /\ h.slots = g.slots /\ h.count = g.count /\ h.world = g.world
        /\ h.zero = g.zero /\ h.game = g.game
    BY <1>0 DEF Whole, EndCrash
  <1>2. h.body.hp = g.body.hp /\ h.body.prop = g.body.prop
    BY <1>0 DEF Whole, EndCrash
  <1>3. h.body.gravity = TRUE
    BY <1>0 DEF Whole, EndCrash
  <1>4. Whole(h)
    BY <1>0 DEF Whole, EndCrash
  <1> HIDE DEF h
  <1>5. Balanced(h)
    BY <1>1, SameSlots DEF Fit
  <1>6. Framed(h, g)
    BY <1>1, <1>2, <1>3, <1>4, <1>5 DEF Framed, Fit, Excused
  <1> QED
    BY <1>6 DEF h

\* A crash that begins takes the weight in a stage, with the armor prepared.
LEMMA DownComboFramed ==
    ASSUME NEW g, Fit(g), NEW pressed
    PROVE  Framed(DownCombo(g, pressed), g)
  <1> DEFINE hyper == [g EXCEPT !.armor.hyper = ~@]
             h == StartCrash(g)
  <1>0. Whole(g) /\ Framed(g, g)
    BY DEF Fit, Framed
  <1>1. \/ DownCombo(g, pressed) \in {g, hyper}
        \/ DownCombo(g, pressed) = h /\ WorldOpen(g) /\ AsksCrash(g)
    BY DEF DownCombo
  <1>2. Quiet(hyper, g) /\ hyper.zero = g.zero /\ hyper.body.hp = g.body.hp
    BY <1>0 DEF Quiet, Kin, Whole
  <1> HIDE DEF hyper
  <1>3. Framed(hyper, g)
    BY <1>0, <1>2, QuietFramed
  <1>4. ASSUME WorldOpen(g), AsksCrash(g) PROVE Framed(h, g)
    <2>1. /\ h.slots = g.slots /\ h.count = g.count /\ h.world = g.world
          /\ h.zero = g.zero /\ h.game = g.game
      BY <1>0 DEF Whole, StartCrash
    <2>2. h.body.hp = g.body.hp /\ h.body.prop = g.body.prop
      BY <1>0 DEF Whole, StartCrash
    <2>3. h.armor.giga = 1 /\ h.armor.valid = g.armor.valid
      BY <1>0 DEF Whole, StartCrash
    <2>4. Whole(h)
      BY <1>0 DEF Whole, StartCrash
    <2> HIDE DEF h
    <2>5. Balanced(h)
      BY <2>1, SameSlots DEF Fit
    <2>6. h.world.mode = "play" /\ h.armor.valid /\ Excused(h)
      BY <1>4, <2>1, <2>3 DEF WorldOpen, AsksCrash, Excused
    <2> QED
      BY <2>1, <2>2, <2>4, <2>5, <2>6 DEF Framed, Fit
  <1> QED
    BY <1>0, <1>1, <1>3, <1>4

LEMMA MapTickFramed ==
    ASSUME NEW g, NEW h, Framed(h, g), NEW keys, NEW pressed
    PROVE  Framed(MapTick(h, keys, pressed).g, g)
  <1> DEFINE a == [h EXCEPT !.armor.closing = keys # "none"]
             b == [h EXCEPT !.armor.seen = TRUE, !.armor.map = TRUE]
             c == [h EXCEPT !.armor.map = ~@, !.armor.closing = h.armor.map]
             d == [h EXCEPT !.armor.map = FALSE, !.armor.closing = TRUE]
             k == MapTick(h, keys, pressed).g
  <1>0. Whole(h)
    BY DEF Framed, Fit
  <1>1. k \in {a, b, c, d, h}
    BY DEF MapTick
  <1>2. Quiet(a, h) /\ a.zero = h.zero /\ a.body.hp = h.body.hp
    BY <1>0 DEF Quiet, Kin, Whole
  <1>3. Quiet(b, h) /\ b.zero = h.zero /\ b.body.hp = h.body.hp
    BY <1>0 DEF Quiet, Kin, Whole
  <1>4. Quiet(c, h) /\ c.zero = h.zero /\ c.body.hp = h.body.hp
    BY <1>0 DEF Quiet, Kin, Whole
  <1>5. Quiet(d, h) /\ d.zero = h.zero /\ d.body.hp = h.body.hp
    BY <1>0 DEF Quiet, Kin, Whole
  <1> HIDE DEF a, b, c, d, k
  <1>6. Framed(k, g)
    BY <1>1, <1>2, <1>3, <1>4, <1>5, QuietFramed
  <1> QED
    BY <1>6 DEF k

LEMMA PartsFrameFramed ==
    ASSUME NEW g, Fit(g), NEW keys
    PROVE  Framed(PartsFrame(g, keys).g, g)
  <1> DEFINE combo == IF keys = "up" \/ (keys = "down" /\ (g.game = 2 \/ g.armor.gold)) THEN keys
                      ELSE "none"
             pressed(c) == combo = c /\ g.armor.combo # c
             runs == [g EXCEPT !.armor.giga = IF @ > 0 THEN @ + 1 ELSE 0]
             down == DownCombo(runs, pressed("down"))
             h == [down EXCEPT !.armor.combo = combo]
             map == MapTick(h, keys, pressed("up"))
             bare == [g EXCEPT !.armor = NoArmor, !.shots = [i \in Places |-> NoRecord]]
             late == [Shut(g) EXCEPT !.armor.valid = FALSE, !.armor.seen = FALSE]
             k == PartsFrame(g, keys).g
  <1>0. Whole(g) /\ Framed(g, g)
    BY DEF Fit, Framed
  <1>1. \/ ~Staged(g) /\ k = bare
        \/ Staged(g) /\ ~InStage(g) /\ k = late
        \/ k \in {Shut(g), g, EndCrash(g), h, map.g}
    BY DEF PartsFrame
  <1> SUFFICES Framed(k, g)
    OBVIOUS
  <1> HIDE DEF k
  <1>2. Framed(runs, g)
    <2>1. /\ runs.slots = g.slots /\ runs.count = g.count /\ runs.body = g.body
          /\ runs.world = g.world /\ runs.zero = g.zero /\ runs.game = g.game
      BY <1>0 DEF Whole
    <2>2. runs.armor.dash = g.armor.dash /\ runs.armor.valid = g.armor.valid
      BY <1>0 DEF Whole
    <2>3. runs.armor.giga = IF g.armor.giga > 0 THEN g.armor.giga + 1 ELSE 0
      BY <1>0 DEF Whole
    <2>4. Whole(runs)
      BY <1>0 DEF Whole
    <2> HIDE DEF runs
    <2>5. Balanced(runs)
      BY <2>1, SameSlots DEF Fit
    <2>6. Excused(g) => Excused(runs)
      BY <1>0, <2>1, <2>2, <2>3 DEF Excused, Whole
    <2> QED
      BY <2>1, <2>2, <2>4, <2>5, <2>6 DEF Framed, Fit
  <1> HIDE DEF runs
  <1>3. Framed(down, runs)
    BY <1>2, DownComboFramed DEF Framed
  <1> HIDE DEF down
  <1>4. Framed(down, g) /\ Whole(down)
    BY <1>2, <1>3 DEF Framed, Fit
  <1>5. Quiet(h, down) /\ h.zero = down.zero /\ h.body.hp = down.body.hp
    BY <1>4 DEF Quiet, Kin, Whole
  <1> HIDE DEF h
  <1>6. Framed(h, g)
    BY <1>4, <1>5, QuietFramed
  <1>7. Framed(map.g, g)
    BY <1>6, MapTickFramed
  <1>8. ~Staged(g) => ~InStage(g)
    BY DEF Staged, InStage
  <1> HIDE DEF bare, late, map
  <1>9. /\ ~Staged(g) => Framed(bare, g)
        /\ Staged(g) /\ ~InStage(g) => Framed(late, g)
    BY <1>8, PutAwayFramed DEF bare, late
  <1> QED
    BY <1>0, <1>1, <1>6, <1>7, <1>9, ShutFramed, EndCrashFramed

-----------------------------------------------------------------------------
(* The two pools of health and the exchange *)

Pools(g, owed) ==
    g.zero.seeded => g.body.hp = owed[Active(g)] /\ g.zero.hp[Other(g)] = owed[Other(g)]
Seeded(g) == ~g.zero.seeded => g.world.mode = "menu"

LEMMA SyncFit ==
    ASSUME NEW g, Fit(g)
    PROVE  LET h == HealthSync(g)
           IN  /\ Fit(h) /\ h.world = g.world /\ h.body = g.body /\ h.armor = g.armor
               /\ h.game = g.game /\ h.zero.phase = g.zero.phase /\ h.zero.active = g.zero.active
               /\ h.zero.modern = g.zero.modern /\ h.zero.dash = g.zero.dash
  <1> DEFINE h == HealthSync(g)
  <1>0. Whole(g)
    BY DEF Fit
  <1>1. /\ h.slots = g.slots /\ h.count = g.count /\ h.world = g.world /\ h.body = g.body
        /\ h.armor = g.armor /\ h.game = g.game
    BY <1>0 DEF Whole, HealthSync
  <1>2. /\ h.zero.phase = g.zero.phase /\ h.zero.active = g.zero.active
        /\ h.zero.modern = g.zero.modern /\ h.zero.dash = g.zero.dash
    BY <1>0 DEF Whole, HealthSync
  <1>3. Whole(h)
    BY <1>0 DEF Whole, HealthSync
  <1> HIDE DEF h
  <1>4. Balanced(h)
    BY <1>1, SameSlots DEF Fit
  <1>5. Fit(h)
    BY <1>1, <1>3, <1>4 DEF Fit, Excused
  <1> QED
    BY <1>1, <1>2, <1>5 DEF h

LEMMA SyncPools ==
    ASSUME NEW g, Whole(g), NEW owed, Pools(g, owed), Seeded(g)
    PROVE  LET h == HealthSync(g)
           IN  /\ Pools(h, owed) /\ Seeded(h)
               /\ Staged(g) => h.zero.seeded = TRUE /\ h.zero.hp[Active(h)] = h.body.hp
  <1> DEFINE h == HealthSync(g)
             hp == [c \in Hunters |-> IF c = Active(g) \/ ~g.zero.seeded
                                      THEN g.body.hp ELSE g.zero.hp[c]]
             k == [g EXCEPT !.zero.seeded = TRUE, !.zero.hp = hp]
  <1>1. CASE ~Staged(g)
    BY <1>1 DEF HealthSync
  <1>2. CASE Staged(g)
    <2>1. h = k
      BY <1>2 DEF HealthSync
    <2>2. g.zero.seeded
      BY <1>2 DEF Seeded, Staged
    <2>3. k.zero.active = g.zero.active /\ k.body = g.body
      BY DEF Whole
    <2>4. k.zero.seeded = TRUE
      BY DEF Whole
    <2>5. k.zero.hp = hp
      BY DEF Whole
    <2> HIDE DEF k
    <2>6. Active(g) \in Hunters /\ Other(g) \in Hunters /\ Other(g) # Active(g)
      BY DEF Whole, Active, Other
    <2>7. Active(k) = Active(g) /\ Other(k) = Other(g)
      BY <2>3 DEF Active, Other
    <2>8. k.zero.hp[Active(k)] = k.body.hp /\ k.zero.hp[Other(k)] = g.zero.hp[Other(g)]
      BY <2>2, <2>3, <2>5, <2>6, <2>7
    <2> HIDE DEF h, hp
    <2>9. Pools(k, owed) /\ Seeded(k)
      BY <2>2, <2>3, <2>4, <2>7, <2>8 DEF Pools, Seeded
    <2> QED
      BY <2>1, <2>4, <2>8, <2>9 DEF h
  <1> QED
    BY <1>1, <1>2

\* A column's step changes no more than the phase of the exchange.
ColumnStep(h, g) ==
    /\ Whole(h) /\ h.world = g.world /\ h.slots = g.slots /\ h.count = g.count
    /\ h.armor = g.armor /\ h.game = g.game /\ h.zero.active = g.zero.active
    /\ h.zero.hp = g.zero.hp /\ h.zero.seeded = g.zero.seeded
    /\ h.body.gravity = g.body.gravity /\ h.body.prop = g.body.prop

LEMMA ColumnFit ==
    ASSUME NEW g, NEW h, Fit(g), ColumnStep(h, g)
    PROVE  Fit(h)
  <1>1. Balanced(h)
    BY SameSlots DEF ColumnStep, Fit
  <1> QED
    BY <1>1 DEF ColumnStep, Fit, Excused

LEMMA ToPhaseColumn ==
    ASSUME NEW g, Whole(g), NEW n \in 0 .. 6
    PROVE  LET h == ToPhase(g, n)
           IN  ColumnStep(h, g) /\ h.body = g.body /\ h.zero.phase = n
  <1> DEFINE h == ToPhase(g, n)
  <1>1. Whole(h)
    BY DEF Whole, ToPhase
  <1>2. /\ h.world = g.world /\ h.slots = g.slots /\ h.count = g.count /\ h.armor = g.armor
        /\ h.game = g.game /\ h.body = g.body
    BY DEF Whole, ToPhase
  <1>3. /\ h.zero.active = g.zero.active /\ h.zero.hp = g.zero.hp
        /\ h.zero.seeded = g.zero.seeded /\ h.zero.phase = n
    BY DEF Whole, ToPhase
  <1> HIDE DEF h
  <1>4. ColumnStep(h, g)
    BY <1>1, <1>2, <1>3 DEF ColumnStep
  <1> QED
    BY <1>2, <1>3, <1>4 DEF h

LEMMA TradedKeeps ==
    ASSUME NEW g, Whole(g), g.zero.seeded, g.zero.hp[Active(g)] = g.body.hp, NEW owed,
           Pools(g, owed)
    PROVE  LET h == Traded(g)
           IN  /\ Pools(h, owed) /\ h.zero.phase = 3 /\ h.world = g.world
               /\ h.body.prop = g.body.prop /\ h.zero.seeded = g.zero.seeded
               /\ Fit(g) => Fit(h)
  <1> DEFINE e == ToPhase(g, 3)
             k(hp) == [e EXCEPT !.zero.active = Other(g), !.body.hp = hp]
             h == Traded(g)
  <1>1. h = k(g.zero.hp[Other(g)])
    BY Zenon DEF Traded
  <1>2. ColumnStep(e, g) /\ e.zero.phase = 3 /\ Other(g) \in Hunters
    BY ToPhaseColumn DEF Other
  <1> HIDE DEF h, e
  <1>3. ASSUME NEW hp
        PROVE  /\ k(hp).slots = e.slots /\ k(hp).count = e.count /\ k(hp).world = e.world
               /\ k(hp).armor = e.armor /\ k(hp).game = e.game
    BY <1>2 DEF ColumnStep, Whole
  <1>4. ASSUME NEW hp
        PROVE  /\ k(hp).zero.hp = e.zero.hp /\ k(hp).zero.seeded = e.zero.seeded
               /\ k(hp).zero.phase = e.zero.phase /\ k(hp).zero.active = Other(g)
    BY <1>2 DEF ColumnStep, Whole
  <1>5. ASSUME NEW hp
        PROVE  /\ k(hp).body.gravity = e.body.gravity /\ k(hp).body.prop = e.body.prop
               /\ k(hp).body.hp = hp
    BY <1>2 DEF ColumnStep, Whole
  <1>6. ASSUME NEW hp
        PROVE  Whole(k(hp))
    BY <1>2 DEF ColumnStep, Whole
  <1> HIDE DEF k
  <1>7. /\ h.slots = g.slots /\ h.count = g.count /\ h.world = g.world /\ h.armor = g.armor
        /\ h.game = g.game /\ h.zero.hp = g.zero.hp /\ h.zero.seeded = g.zero.seeded
        /\ h.zero.phase = 3 /\ h.zero.active = Other(g) /\ h.body.gravity = g.body.gravity
        /\ h.body.prop = g.body.prop /\ h.body.hp = g.zero.hp[Other(g)] /\ Whole(h)
    <2> DEFINE hp == g.zero.hp[Other(g)]
    <2> HIDE DEF hp
    <2>1. h = k(hp)
      BY <1>1 DEF hp
    <2>2. /\ h.slots = e.slots /\ h.count = e.count /\ h.world = e.world
          /\ h.armor = e.armor /\ h.game = e.game /\ Whole(h)
      BY <1>3, <1>6, <2>1
    <2>3. /\ h.zero.hp = e.zero.hp /\ h.zero.seeded = e.zero.seeded
          /\ h.zero.phase = e.zero.phase /\ h.zero.active = Other(g)
      BY <1>4, <2>1
    <2>4. /\ h.body.gravity = e.body.gravity /\ h.body.prop = e.body.prop
          /\ h.body.hp = g.zero.hp[Other(g)]
      BY <1>5, <2>1 DEF hp
    <2> QED
      BY <1>2, <2>2, <2>3, <2>4 DEF ColumnStep
  <1>8. Active(h) = Other(g) /\ Other(h) = Active(g)
    BY <1>7 DEF Whole, Active, Other
  <1>9. Pools(h, owed)
    BY <1>7, <1>8 DEF Pools
  <1>10. Fit(g) => Fit(h)
    <2>1. Balanced(g) => Balanced(h)
      BY <1>7, SameSlots
    <2> QED
      BY <1>7, <2>1 DEF Fit, Excused
  <1> QED
    BY <1>7, <1>9, <1>10 DEF h

\* One frame of the exchange, of a moment whose health is written down.
LEMMA ExchangeKeeps ==
    ASSUME NEW g, Fit(g), NEW owed, Pools(g, owed), Seeded(g), NEW select,
           Staged(g) => g.zero.seeded = TRUE /\ g.zero.hp[Active(g)] = g.body.hp,
           g.zero.phase # 0 => InStage(g)
    PROVE  LET swap == Exchange(g, select)
               h == swap.g
           IN  /\ Fit(h) /\ Pools(h, owed) /\ Seeded(h)
               /\ h.world = g.world /\ h.body.prop = g.body.prop
               /\ h.zero.phase # 0 => swap.held /\ InStage(h)
  <1> DEFINE n == g.zero.phase
             starts == ToPhase(g, 1)
             counts(f) == Counted(g, f)
             taller == [g EXCEPT !.zero.height = @ + 1]
             lower == [g EXCEPT !.zero.height = @ - 1]
             flat == [g EXCEPT !.zero.height = 0]
             down == ToPhase(flat, 5)
             stops == ToPhase(g, 0)
             settles == [stops EXCEPT !.body.act = "settle"]
             swap == Exchange(g, select)
             h == swap.g
  <1>0. Whole(g) /\ n \in 0 .. 6
    BY DEF Fit, Whole
  <1>1. \/ n = 0 /\ h = g
        \/ n = 0 /\ InStage(g) /\ h = starts /\ swap.held
        \/ n \in {1, 5} /\ h = counts(MorphFrames) /\ swap.held
        \/ n = 2 /\ (h = taller \/ h = Traded(taller)) /\ swap.held
        \/ n = 3 /\ h = counts(ExchangeFrames) /\ swap.held
        \/ n = 4 /\ (h = down \/ h = lower) /\ swap.held
        \/ n = 6 /\ h = settles
    <2>1. CASE n = 0
      BY <2>1 DEF Exchange, MayExchange
    <2>2. CASE n = 1
      BY <2>2 DEF Exchange
    <2>3. CASE n = 2
      BY <2>3 DEF Exchange, Rising
    <2>4. CASE n = 3
      BY <2>4 DEF Exchange
    <2>5. CASE n = 4
      BY <2>5 DEF Exchange, Falling
    <2>6. CASE n = 5
      BY <2>6 DEF Exchange
    <2>7. CASE n = 6
      BY <2>7 DEF Exchange
    <2> QED
      BY <1>0, <2>1, <2>2, <2>3, <2>4, <2>5, <2>6, <2>7
  <1> SUFFICES /\ Fit(h) /\ Pools(h, owed) /\ Seeded(h)
               /\ h.world = g.world /\ h.body.prop = g.body.prop
               /\ h.zero.phase # 0 => swap.held /\ InStage(h)
    OBVIOUS
  <1> HIDE DEF swap
  <1>2. ColumnStep(starts, g) /\ starts.body.hp = g.body.hp
    BY <1>0, ToPhaseColumn
  <1>3. ColumnStep(taller, g) /\ taller.body.hp = g.body.hp
    BY <1>0 DEF ColumnStep, Whole
  <1>4. ColumnStep(lower, g) /\ lower.body.hp = g.body.hp
    BY <1>0 DEF ColumnStep, Whole
  <1>5. ColumnStep(down, g) /\ down.body.hp = g.body.hp
    <2>1. ColumnStep(flat, g) /\ flat.body.hp = g.body.hp
      BY <1>0 DEF ColumnStep, Whole
    <2> HIDE DEF flat
    <2> QED
      BY <2>1, ToPhaseColumn DEF ColumnStep
  <1>6. ColumnStep(settles, g) /\ settles.body.hp = g.body.hp /\ settles.zero.phase = 0
    <2>1. ColumnStep(stops, g) /\ stops.body = g.body /\ stops.zero.phase = 0
      BY <1>0, ToPhaseColumn
    <2> HIDE DEF stops
    <2>2. ColumnStep(settles, stops) /\ settles.body.hp = stops.body.hp /\ settles.zero = stops.zero
      BY <2>1 DEF ColumnStep, Whole
    <2> HIDE DEF settles
    <2> QED
      BY <2>1, <2>2 DEF ColumnStep
  <1>7. ASSUME NEW f, n \in {1, 3, 5} PROVE ColumnStep(counts(f), g) /\ counts(f).body.hp = g.body.hp
    <2> DEFINE next == ToPhase(g, n + 1)
               ticks == [g EXCEPT !.zero.tick = @ + 1]
    <2>1. n + 1 \in 0 .. 6
      BY <1>7
    <2>2. ColumnStep(next, g) /\ next.body.hp = g.body.hp
      BY <1>0, <2>1, ToPhaseColumn
    <2>3. ColumnStep(ticks, g) /\ ticks.body.hp = g.body.hp
      BY <1>0 DEF ColumnStep, Whole
    <2>4. counts(f) = next \/ counts(f) = ticks
      BY DEF Counted
    <2> HIDE DEF next, ticks
    <2> QED
      BY <2>2, <2>3, <2>4
  <1> HIDE DEF starts, counts, taller, lower, flat, down, stops, settles
  <1>8. ASSUME NEW k, ColumnStep(k, g), k.body.hp = g.body.hp
        PROVE  /\ Fit(k) /\ Pools(k, owed) /\ Seeded(k) /\ k.world = g.world
               /\ k.body.prop = g.body.prop
    <2>1. Fit(k)
      BY <1>8, ColumnFit
    <2>2. Pools(k, owed)
      BY <1>8 DEF ColumnStep, Pools, Active, Other
    <2>3. Seeded(k)
      BY <1>8 DEF ColumnStep, Seeded
    <2> QED
      BY <1>8, <2>1, <2>2, <2>3 DEF ColumnStep
  <1>9. CASE h = Traded(taller) /\ n = 2 /\ swap.held
    <2>1. g.zero.seeded = TRUE /\ g.zero.hp[Active(g)] = g.body.hp /\ InStage(g)
      BY <1>9 DEF InStage, Staged
    <2>2. taller.zero.seeded /\ taller.zero.hp[Active(taller)] = taller.body.hp
      BY <1>3, <2>1 DEF ColumnStep, Active
    <2>3. Whole(taller) /\ Pools(taller, owed) /\ Fit(taller) /\ taller.world = g.world
      BY <1>3, <1>8 DEF ColumnStep
    <2>4. /\ Pools(h, owed) /\ h.world = taller.world /\ h.body.prop = taller.body.prop
          /\ h.zero.seeded = taller.zero.seeded /\ Fit(h)
      BY <1>9, <2>2, <2>3, TradedKeeps, ZenonT(40)
    <2>5. Seeded(h) /\ InStage(h)
      BY <2>1, <2>2, <2>3, <2>4 DEF Seeded, InStage
    <2> QED
      BY <1>3, <1>9, <2>3, <2>4, <2>5 DEF ColumnStep
  <1>10. CASE \/ h = g /\ n = 0
              \/ ColumnStep(h, g) /\ h.body.hp = g.body.hp /\ (swap.held \/ h.zero.phase = 0)
    <2>1. /\ Fit(h) /\ Pools(h, owed) /\ Seeded(h) /\ h.world = g.world
          /\ h.body.prop = g.body.prop
      BY <1>8, <1>10
    <2>2. h.zero.phase # 0 => swap.held /\ InStage(g)
      BY <1>1, <1>6, <1>10
    <2> QED
      BY <2>1, <2>2 DEF InStage
  <1>11. \/ h = Traded(taller) /\ n = 2 /\ swap.held
         \/ h = g /\ n = 0
         \/ ColumnStep(h, g) /\ h.body.hp = g.body.hp /\ (swap.held \/ h.zero.phase = 0)
    BY <1>1, <1>2, <1>3, <1>4, <1>5, <1>6, <1>7
  <1> QED
    BY <1>9, <1>10, <1>11

-----------------------------------------------------------------------------
(* The invariant *)

Turns == {"frame", "player", "body", "shots", "stage"}

\* A pretended ground is there for the update of the player alone, and a dash
\* of X or of Zero is what pretends.
PropOwned(g) ==
    g.body.prop =>
        /\ turn = "body" /\ Staged(g)
        /\ \/ Active(g) = "x" /\ g.armor.dash.ticks > 0 /\ ~g.armor.dash.up
           \/ Modern(g) /\ g.zero.dash > 0

HuntersInv ==
    /\ Fit(hunters) /\ turn \in Turns /\ DOMAIN kept = Hunters
    /\ Pools(hunters, kept) /\ Seeded(hunters)
    /\ hunters.zero.phase # 0 => turn = "frame" /\ InStage(hunters)
    /\ PropOwned(hunters)

USE DEF Turns

LEMMA HuntersInitially == PartsInit => HuntersInv
  <1> SUFFICES ASSUME PartsInit PROVE HuntersInv
    OBVIOUS
  <1>1. PICK game \in {2, 3}, start \in Hunters :
          hunters = [game |-> game, world |-> NoWorld, body |-> NewBody("settle"),
                     zero |-> NewZero(start, "modern" \in wants), armor |-> NoArmor,
                     slots |-> [i \in Places |-> "free"], shots |-> [i \in Places |-> NoRecord],
                     count |-> 0]
    BY DEF PartsInit
  <1>2. turn = "frame" /\ DOMAIN kept = Hunters
    BY DEF PartsInit
  <1>3. Whole(hunters)
    BY <1>1 DEF Whole, NoWorld, NewBody, NewZero, NoArmor, NoDash
  <1>4. Used(hunters) = {} /\ hunters.count = 0
    BY <1>1 DEF Used
  <1>5. Balanced(hunters)
    BY <1>4, FS_EmptySet DEF Balanced
  <1>6. /\ hunters.world.mode = "menu" /\ hunters.zero.seeded = FALSE /\ hunters.zero.phase = 0
        /\ hunters.body.prop = FALSE
    BY <1>1 DEF NoWorld, NewBody, NewZero
  <1> QED
    BY <1>2, <1>3, <1>5, <1>6 DEF HuntersInv, Fit, Pools, Seeded, PropOwned

LEMMA FrameKeeps ==
    ASSUME HuntersInv, NEW select, NEW keys, Frame(select, keys)
    PROVE  HuntersInv'
  <1> DEFINE parts == PartsFrame(hunters, keys)
             g == parts.g
             synced == HealthSync(g)
             swap == Exchange(synced, select)
  <1>1. /\ turn = "frame" /\ kept' = kept
        /\ parts.held => hunters' = g /\ turn' = "frame"
        /\ ~parts.held => hunters' = swap.g /\ turn' = IF swap.held THEN "frame" ELSE "player"
    BY DEF Frame, SwapTick
  <1>2. Framed(g, hunters)
    BY PartsFrameFramed DEF HuntersInv
  <1> HIDE DEF parts
  <1>3. Fit(g) /\ Pools(g, kept) /\ Seeded(g)
    BY <1>2 DEF Framed, HuntersInv, Pools, Seeded, Active, Other
  <1>4. (g.zero.phase # 0 => InStage(g)) /\ ~g.body.prop
    BY <1>1, <1>2 DEF Framed, HuntersInv, InStage, PropOwned
  <1>5. CASE parts.held
    BY <1>1, <1>3, <1>4, <1>5 DEF HuntersInv, PropOwned
  <1>6. CASE ~parts.held
    <2>1. /\ Fit(synced) /\ synced.world = g.world /\ synced.body = g.body
          /\ synced.zero.phase = g.zero.phase
      BY <1>3, SyncFit
    <2>2. /\ Pools(synced, kept) /\ Seeded(synced)
          /\ Staged(g) => synced.zero.seeded = TRUE /\ synced.zero.hp[Active(synced)] = synced.body.hp
      BY <1>3, SyncPools DEF Fit
    <2> HIDE DEF synced
    <2>3. /\ synced.zero.phase # 0 => InStage(synced)
          /\ Staged(synced) => synced.zero.seeded = TRUE
                               /\ synced.zero.hp[Active(synced)] = synced.body.hp
      BY <1>4, <2>1, <2>2 DEF InStage, Staged
    <2>4. /\ Fit(swap.g) /\ Pools(swap.g, kept) /\ Seeded(swap.g)
          /\ swap.g.body.prop = synced.body.prop
          /\ swap.g.zero.phase # 0 => swap.held /\ InStage(swap.g)
      BY <2>1, <2>2, <2>3, ExchangeKeeps
    <2> HIDE DEF swap
    <2>5. ~swap.g.body.prop
      BY <1>4, <2>1, <2>4
    <2> QED
      BY <1>1, <1>6, <2>4, <2>5 DEF HuntersInv, PropOwned
  <1> QED
    BY <1>5, <1>6

LEMMA PlayerKeeps ==
    ASSUME HuntersInv, NEW b, NEW see, Player(b, see)
    PROVE  HuntersInv'
  <1> DEFINE pre == PrePlayer(hunters, b, see)
             g == pre.g
             slid == SlideTick(g)
             h == MovementTick(slid, pre.pad)
  <1>1. /\ turn = "player" /\ turn' = "body"
        /\ Staged(hunters) => hunters' = h
        /\ ~Staged(hunters) => hunters' = hunters
        /\ kept' = IF Staged(hunters) THEN [kept EXCEPT ![Active(hunters)] = hunters'.body.hp] ELSE kept
    BY DEF Player
  <1>2. ~hunters.body.prop /\ hunters.zero.phase = 0
    BY <1>1 DEF HuntersInv, PropOwned
  <1>3. CASE ~Staged(hunters)
    BY <1>1, <1>2, <1>3 DEF HuntersInv, PropOwned
  <1>4. CASE Staged(hunters)
    <2>1. /\ Fit(g) /\ Kin(g, hunters)
          /\ g.body.prop => /\ Active(hunters) = "x" /\ g.armor.dash.ticks > 0
                            /\ ~g.armor.dash.up
      BY <1>2, PrePlayerFit DEF HuntersInv
    <2> HIDE DEF g
    <2>2. Quiet(slid, g)
      BY <2>1 DEF Quiet, Kin, Whole, Fit, SlideTick
    <2> HIDE DEF slid
    <2>3. Fit(slid) /\ Kin(slid, hunters)
      BY <2>1, <2>2, QuietCalm, CalmFit DEF Quiet, Kin
    <2>4. /\ Fit(h) /\ Kin(h, slid)
          /\ ~Modern(slid) => h = slid
          /\ Modern(slid) /\ ~slid.body.prop /\ h.body.prop => h.zero.dash > 0
      BY <2>3, MovementTickFit
    <2> HIDE DEF h
    <2>5. Kin(h, hunters)
      BY <2>3, <2>4 DEF Kin
    <2>6. ASSUME h.body.prop
          PROVE  \/ Active(h) = "x" /\ h.armor.dash.ticks > 0 /\ ~h.armor.dash.up
                 \/ Modern(h) /\ h.zero.dash > 0
      <3>1. Modern(h) <=> Modern(slid)
        BY <2>4 DEF Modern, Active, Kin
      <3>2. CASE ~Modern(slid)
        BY <2>1, <2>2, <2>3, <2>4, <2>6, <3>2 DEF Quiet, Kin, Active
      <3>3. CASE Modern(slid)
        <4>1. ~slid.body.prop
          BY <2>1, <2>2, <2>3, <3>3 DEF Quiet, Kin, Modern, Active
        <4> QED
          BY <2>4, <2>6, <3>1, <3>3, <4>1
      <3> QED
        BY <3>2, <3>3
    <2>7. Pools(h, kept')
      BY <1>1, <1>4, <2>5 DEF Pools, Kin, HuntersInv, Active, Other, Fit, Whole
    <2>8. DOMAIN kept' = Hunters /\ Seeded(h) /\ h.zero.phase = 0
      BY <1>1, <1>2, <2>5 DEF HuntersInv, Kin, Seeded
    <2> QED
      BY <1>1, <1>4, <2>4, <2>5, <2>6, <2>7, <2>8 DEF HuntersInv, PropOwned, Kin, Staged
  <1> QED
    BY <1>3, <1>4

LEMMA BodyKeeps ==
    ASSUME HuntersInv, NEW act, NEW what, BodyMoves(act, what)
    PROVE  HuntersInv'
  <1> DEFINE g == GuestShot(hunters, what)
             h == [g EXCEPT !.body.act = act, !.body.ground = Grounded(act, @),
                            !.world.released = FALSE]
             m == MovementEnd(h)
             e == PartsPlayerEnd(m)
  <1>1. /\ turn = "body" /\ turn' = "shots" /\ kept' = kept
        /\ Staged(hunters) => what \in Fires(hunters, pad) /\ hunters' = e
        /\ ~Staged(hunters) => hunters' = hunters
    BY DEF BodyMoves
  <1>2. hunters.zero.phase = 0 /\ Whole(hunters)
    BY <1>1 DEF HuntersInv, Fit
  <1>3. CASE Staged(hunters)
    <2>1. what = "free" \/ FreePlaces(hunters) # {}
      BY <1>1, <1>3 DEF Fires
    <2>2. Shoots(g, hunters) /\ g.zero = hunters.zero
      <3>1. g.zero = hunters.zero
        BY <1>2 DEF GuestShot, Whole
      <3> QED
        BY <1>2, <2>1, <3>1, GuestShotShoots
    <2> HIDE DEF g
    <2>3. Quiet(h, g) /\ h.body.hp = g.body.hp /\ h.zero = g.zero
      BY <2>2 DEF Shoots, Quiet, Kin, Whole
    <2> HIDE DEF h
    <2>4. Calm(h, hunters) /\ h.body.hp = hunters.body.hp /\ Whole(h)
      BY <2>2, <2>3, ShootsCalm, QuietCalm, CalmTwice DEF Shoots, Calm
    <2>5. /\ Calm(m, h) /\ m.body.hp = h.body.hp /\ m.armor = h.armor
          /\ Modern(h) /\ h.zero.dash # 0 => m.body.prop = FALSE
      BY <2>4, MovementEndCalm
    <2> HIDE DEF m
    <2>6. /\ Calm(e, m) /\ e.body.hp = m.body.hp
          /\ Active(m) = "x" /\ m.armor.dash.ticks > 0 /\ ~m.armor.dash.up => ~e.body.prop
      BY <2>5, PartsPlayerEndCalm DEF Calm
    <2> HIDE DEF e
    <2>7. Calm(e, hunters) /\ e.body.hp = hunters.body.hp
      BY <2>4, <2>5, <2>6, CalmTwice
    <2>8. ~e.body.prop
      <3>1. CASE ~hunters.body.prop
        BY <2>7, <3>1 DEF Calm
      <3>2. CASE Active(hunters) = "x" /\ hunters.armor.dash.ticks > 0 /\ ~hunters.armor.dash.up
        <4>1. Active(m) = "x"
          BY <2>4, <2>5, <3>2 DEF Calm, Kin, Active
        <4>2. m.armor.dash.ticks = hunters.armor.dash.ticks
              /\ m.armor.dash.up = hunters.armor.dash.up
          BY <2>2, <2>3, <2>5 DEF Shoots, Quiet
        <4> QED
          BY <2>6, <3>2, <4>1, <4>2
      <3>3. CASE Modern(hunters) /\ hunters.zero.dash > 0
        <4>1. h.zero.dash # 0 /\ Modern(h)
          BY <2>2, <2>3, <3>3 DEF Modern, Active
        <4>2. m.body.prop = FALSE
          BY <2>5, <4>1
        <4> QED
          BY <2>6, <4>2 DEF Calm
      <3> QED
        BY <3>1, <3>2, <3>3 DEF HuntersInv, PropOwned
    <2>9. Fit(e)
      BY <2>7, CalmFit DEF HuntersInv
    <2>10. Pools(e, kept) /\ Seeded(e) /\ e.zero.phase = 0
      BY <1>2, <2>7 DEF HuntersInv, Pools, Seeded, Calm, Kin, Active, Other
    <2> QED
      BY <1>1, <1>3, <2>8, <2>9, <2>10 DEF HuntersInv, PropOwned
  <1>4. CASE ~Staged(hunters)
    <2>1. hunters' = hunters
      BY <1>1, <1>4
    <2>2. ~hunters.body.prop
      BY <1>4 DEF HuntersInv, PropOwned
    <2> QED
      BY <1>1, <1>2, <2>1, <2>2 DEF HuntersInv, PropOwned
  <1> QED
    BY <1>3, <1>4

\* The updates follow one another: the first slot they could not reach would
\* follow one they do.
LEMMA UpdatesExist ==
    ASSUME NEW g, NEW sees, NEW n \in Nat
    PROVE  \E f : Updates(f, g, sees, n)
  <1> DEFINE Bad == {m \in Nat : ~\E f : Updates(f, g, sees, m)}
  <1>1. SUFFICES ASSUME Bad # {} PROVE FALSE
    OBVIOUS
  <1> DEFINE m == Min(Bad)
  <1>2. m \in Nat /\ m \in Bad /\ \A j \in Bad : m <= j
    BY <1>1, LeastNatural
  <1> HIDE DEF m
  <1>3. CASE m = 0
    <2> DEFINE f == [i \in 0 .. 0 |-> g]
    <2>1. Updates(f, g, sees, 0)
      BY DEF Updates
    <2> QED
      BY <1>2, <1>3, <2>1
  <1>4. CASE m # 0
    <2>1. m - 1 \in Nat /\ m - 1 \notin Bad
      <3> HIDE DEF Bad
      <3> QED
        BY <1>2, <1>4
    <2>2. PICK f : Updates(f, g, sees, m - 1)
      BY <2>1
    <2> DEFINE k == [i \in 0 .. m |-> IF i = m THEN PartsShotTick(f[m - 1], m, sees[m]) ELSE f[i]]
    <2>3. \A i \in 0 .. (m - 1) : k[i] = f[i]
      BY <1>2, <2>1
    <2>4. ASSUME NEW i \in 0 .. m
          PROVE  k[i] = IF i = 0 THEN g ELSE PartsShotTick(k[i - 1], i, sees[i])
      <3>1. CASE i = m
        <4>1. k[i] = PartsShotTick(f[m - 1], m, sees[m])
          BY <3>1
        <4>2. k[m - 1] = f[m - 1]
          BY <2>1, <2>3
        <4> QED
          BY <1>4, <3>1, <4>1, <4>2
      <3>2. CASE i # m
        <4>1. i \in 0 .. (m - 1) /\ (i # 0 => i - 1 \in 0 .. (m - 1))
          BY <1>2, <3>2
        <4>2. f[i] = IF i = 0 THEN g ELSE PartsShotTick(f[i - 1], i, sees[i])
          BY <2>2, <4>1 DEF Updates
        <4> HIDE DEF k
        <4> QED
          BY <2>3, <4>1, <4>2
      <3> QED
        BY <3>1, <3>2
    <2>5. Updates(k, g, sees, m)
      <3>1. k = [i \in 0 .. m |-> k[i]]
        OBVIOUS
      <3> HIDE DEF k
      <3> QED
        BY <2>4, <3>1 DEF Updates
    <2> QED
      BY <1>2, <2>5
  <1> QED
    BY <1>3, <1>4

LEMMA ShotsKeep ==
    ASSUME HuntersInv, NEW sees, ShotsMove(sees)
    PROVE  HuntersInv'
  <1> DEFINE after == CHOOSE f : Updates(f, hunters, sees, ShotSlots)
  <1>1. Updates(after, hunters, sees, ShotSlots) /\ hunters' = after[ShotSlots]
    <2>1. \E f : Updates(f, hunters, sees, ShotSlots)
      BY UpdatesExist, PartsAssumption
    <2>2. hunters' = after[ShotSlots]
      BY Zenon DEF ShotsMove, Updates
    <2> QED
      BY Zenon, <2>1, <2>2
  <1> HIDE DEF after
  <1>2. Shoots(hunters', hunters)
    BY <1>1, AllShotsShoot DEF HuntersInv, Fit
  <1>3. turn = "shots" /\ turn' = "stage" /\ kept' = kept
    BY DEF ShotsMove
  <1>4. Fit(hunters')
    BY <1>2, ShootsCalm, CalmFit DEF HuntersInv
  <1>5. Pools(hunters', kept) /\ Seeded(hunters') /\ hunters'.zero.phase = 0
    BY <1>2, <1>3 DEF HuntersInv, Pools, Seeded, Shoots, Kin, Active, Other
  <1>6. ~hunters'.body.prop
    BY <1>2, <1>3 DEF HuntersInv, PropOwned, Shoots
  <1> QED
    BY <1>3, <1>4, <1>5, <1>6 DEF HuntersInv, PropOwned

-----------------------------------------------------------------------------
(* What else the guest does in a frame *)

LEMMA StageKeeps ==
    ASSUME HuntersInv, NEW g, NEW owed, StageDoes(g, owed), Fit(g), Pools(g, owed), Seeded(g),
           ~g.body.prop, g.zero.phase = 0, DOMAIN owed = Hunters
    PROVE  HuntersInv'
  <1> DEFINE h == HealthSync(g)
  <1>1. hunters' = h /\ kept' = owed /\ turn' = "frame"
    BY DEF StageDoes
  <1>2. Fit(h) /\ h.body = g.body /\ h.zero.phase = g.zero.phase
    BY SyncFit
  <1>3. Pools(h, owed) /\ Seeded(h)
    BY SyncPools DEF Fit
  <1> HIDE DEF h
  <1> QED
    BY <1>1, <1>2, <1>3 DEF HuntersInv, PropOwned

\* What touches nothing borrowed, and no health but the active hunter's.
LEMMA QuietStageKeeps ==
    ASSUME HuntersInv, turn = "stage", NEW g, Quiet(g, hunters), NEW owed, StageDoes(g, owed),
           \/ owed = kept /\ g.body.hp = hunters.body.hp
           \/ owed = NowHas(g.body.hp)
    PROVE  HuntersInv'
  <1>1. Fit(g)
    BY QuietCalm, CalmFit DEF HuntersInv
  <1>2. Active(g) = Active(hunters) /\ Other(g) = Other(hunters)
    BY DEF Quiet, Kin, Active, Other
  <1>3. Active(g) \in Hunters /\ Other(g) \in Hunters /\ Other(g) # Active(g)
    BY <1>1 DEF Fit, Whole, Active, Other
  <1>4. DOMAIN owed = Hunters
    BY DEF HuntersInv, NowHas
  <1>5. Pools(g, owed)
    <2>1. CASE owed = kept /\ g.body.hp = hunters.body.hp
      BY <1>2, <2>1 DEF HuntersInv, Pools, Quiet, Kin
    <2>2. CASE owed = NowHas(g.body.hp)
      BY <1>2, <1>3, <2>2 DEF HuntersInv, Pools, Quiet, Kin, NowHas
    <2> QED
      BY <2>1, <2>2
  <1>6. Seeded(g) /\ g.zero.phase = 0 /\ ~g.body.prop
    BY DEF HuntersInv, Seeded, Quiet, Kin, PropOwned
  <1> QED
    BY <1>1, <1>4, <1>5, <1>6, StageKeeps

LEMMA QuietActionsKeep ==
    ASSUME HuntersInv,
           \/ NothingElse \/ CoolsDown \/ Heals \/ Doors \/ Pauses \/ Scripted \/ Passage
           \/ Selects \/ HadoukenAward
    PROVE  HuntersInv'
  <1>0. Whole(hunters)
    BY DEF HuntersInv, Fit
  <1>1. CASE NothingElse
    <2>1. Quiet(hunters, hunters)
      BY <1>0, QuietItself
    <2> QED
      BY <1>1, <2>1, QuietStageKeeps DEF NothingElse, StageDoes
  <1>2. CASE CoolsDown
    <2> DEFINE g == [hunters EXCEPT !.world.cooling = FALSE]
    <2>1. Quiet(g, hunters) /\ g.body.hp = hunters.body.hp
      BY <1>0 DEF Quiet, Kin, Whole
    <2>2. StageDoes(g, kept) /\ turn = "stage"
      BY <1>2 DEF CoolsDown, StageDoes
    <2> HIDE DEF g
    <2> QED
      BY <2>1, <2>2, QuietStageKeeps
  <1>3. CASE Heals
    <2> DEFINE g == [hunters EXCEPT !.body.hp = @ + 1]
    <2>1. Quiet(g, hunters) /\ g.body.hp = hunters.body.hp + 1
      BY <1>0 DEF Quiet, Kin, Whole
    <2>2. StageDoes(g, NowHas(hunters.body.hp + 1)) /\ turn = "stage"
      BY <1>3 DEF Heals, StageDoes
    <2> HIDE DEF g
    <2> QED
      BY <2>1, <2>2, QuietStageKeeps
  <1>4. CASE Doors
    <2> DEFINE g == [hunters EXCEPT !.world.busy = ~@]
    <2>1. Quiet(g, hunters) /\ g.body.hp = hunters.body.hp
      BY <1>0 DEF Quiet, Kin, Whole
    <2>2. StageDoes(g, kept) /\ turn = "stage"
      BY <1>4 DEF Doors, StageDoes
    <2> HIDE DEF g
    <2> QED
      BY <2>1, <2>2, QuietStageKeeps
  <1>5. CASE Pauses
    <2> DEFINE g == [hunters EXCEPT !.world.paused = ~@]
    <2>1. Quiet(g, hunters) /\ g.body.hp = hunters.body.hp
      BY <1>0 DEF Quiet, Kin, Whole
    <2>2. StageDoes(g, kept) /\ turn = "stage"
      BY <1>5 DEF Pauses, StageDoes
    <2> HIDE DEF g
    <2> QED
      BY <2>1, <2>2, QuietStageKeeps
  <1>6. CASE Scripted
    <2> DEFINE g == [hunters EXCEPT !.body.act = "script"]
    <2>1. Quiet(g, hunters) /\ g.body.hp = hunters.body.hp
      BY <1>0 DEF Quiet, Kin, Whole
    <2>2. StageDoes(g, kept) /\ turn = "stage"
      BY <1>6 DEF Scripted, StageDoes
    <2> HIDE DEF g
    <2> QED
      BY <2>1, <2>2, QuietStageKeeps
  <1>7. CASE Passage
    <2> DEFINE g == [hunters EXCEPT !.world.low = ~@]
    <2>1. Quiet(g, hunters) /\ g.body.hp = hunters.body.hp
      BY <1>0 DEF Quiet, Kin, Whole
    <2>2. StageDoes(g, kept) /\ turn = "stage"
      BY <1>7 DEF Passage, StageDoes
    <2> HIDE DEF g
    <2> QED
      BY <2>1, <2>2, QuietStageKeeps
  <1>8. CASE Selects
    <2> DEFINE g == [hunters EXCEPT !.world.special = ~@]
    <2>1. Quiet(g, hunters) /\ g.body.hp = hunters.body.hp
      BY <1>0 DEF Quiet, Kin, Whole
    <2>2. StageDoes(g, kept) /\ turn = "stage"
      BY <1>8 DEF Selects, StageDoes
    <2> HIDE DEF g
    <2> QED
      BY <2>1, <2>2, QuietStageKeeps
  <1>9. CASE HadoukenAward
    <2> DEFINE g == [hunters EXCEPT !.armor.gold = TRUE, !.armor.hyperEnergy = FullMeter]
    <2>1. Quiet(g, hunters) /\ g.body.hp = hunters.body.hp
      BY <1>0 DEF Quiet, Kin, Whole
    <2>2. StageDoes(g, kept) /\ turn = "stage"
      BY <1>9 DEF HadoukenAward, StageDoes
    <2> HIDE DEF g
    <2> QED
      BY <2>1, <2>2, QuietStageKeeps
  <1> QED
    BY <1>1, <1>2, <1>3, <1>4, <1>5, <1>6, <1>7, <1>8, <1>9

LEMMA HurtKeeps ==
    ASSUME HuntersInv, NEW raw, NEW projectile, Hurt(raw, projectile)
    PROVE  HuntersInv'
  <1> DEFINE lost == IF Active(hunters) = "x" THEN Damage(hunters, raw) ELSE raw
             hp == IF hunters.body.hp > lost THEN hunters.body.hp - lost ELSE 0
             taken == TakeDamage(hunters, raw, projectile)
             g == [taken EXCEPT !.body.hp = hp, !.body.act = "hurt"]
  <1>0. Whole(hunters)
    BY DEF HuntersInv, Fit
  <1>1. StageDoes(g, NowHas(hp)) /\ turn = "stage"
    BY DEF Hurt, StageDoes
  <1> HIDE DEF hp
  <1>2. Quiet(taken, hunters)
    <2> DEFINE charged == [hunters EXCEPT !.armor.energy =
                             IF projectile /\ @ + raw <= FullMeter THEN @ + raw
                             ELSE IF projectile THEN FullMeter ELSE @]
               broken == [hunters EXCEPT !.armor.barrier.ticks = 0, !.armor.barrier.level = 0]
    <2>1. taken \in {hunters, charged, broken, BarrierStart(hunters)}
      BY DEF TakeDamage
    <2>2. Quiet(charged, hunters)
      BY <1>0 DEF Quiet, Kin, Whole
    <2>3. Quiet(broken, hunters)
      BY <1>0 DEF Quiet, Kin, Whole
    <2>4. Quiet(BarrierStart(hunters), hunters)
      BY <1>0 DEF Quiet, Kin, Whole, BarrierStart
    <2> HIDE DEF taken, charged, broken
    <2> QED
      BY <1>0, <2>1, <2>2, <2>3, <2>4, QuietItself
  <1> HIDE DEF taken
  <1>3. Quiet(g, taken) /\ g.body.hp = hp
    BY <1>2 DEF Quiet, Kin, Whole
  <1> HIDE DEF g
  <1>4. Quiet(g, hunters)
    BY <1>2, <1>3, QuietTwice
  <1> QED
    BY <1>1, <1>3, <1>4, QuietStageKeeps

LEMMA ShotContactKeeps ==
    ASSUME HuntersInv, NEW i \in Places, ShotContact(i)
    PROVE  HuntersInv'
  <1> DEFINE g == [hunters EXCEPT !.slots[i] = "free", !.count = Less(@)]
  <1>0. Whole(hunters) /\ turn = "stage" /\ hunters.slots[i] # "free" /\ StageDoes(g, kept)
    BY DEF HuntersInv, Fit, ShotContact, StageDoes
  <1>1. /\ g.world = hunters.world /\ g.zero = hunters.zero /\ g.game = hunters.game
        /\ g.body = hunters.body /\ g.armor = hunters.armor
    BY <1>0 DEF Whole
  <1>2. g.slots = [hunters.slots EXCEPT ![i] = "free"] /\ g.count = Less(hunters.count)
    BY <1>0 DEF Whole
  <1>3. Whole(g)
    BY <1>0 DEF Whole
  <1> HIDE DEF g
  <1>4. Balanced(g)
    BY <1>0, <1>2, SlotFreed DEF HuntersInv, Fit
  <1>5. Fit(g)
    BY <1>1, <1>3, <1>4 DEF HuntersInv, Fit, Excused
  <1>6. Pools(g, kept) /\ Seeded(g) /\ ~g.body.prop /\ g.zero.phase = 0
    BY <1>0, <1>1 DEF HuntersInv, Pools, Seeded, PropOwned, Active, Other
  <1> QED
    BY <1>0, <1>5, <1>6, StageKeeps DEF HuntersInv

LEMMA RestartKeeps == HuntersInv /\ Restart => HuntersInv'
  <1> SUFFICES ASSUME HuntersInv, Restart PROVE HuntersInv'
    OBVIOUS
  <1> DEFINE r == HealthRespawn(hunters)
             g == [r EXCEPT !.world = [NoWorld EXCEPT !.mode = "entry"],
                            !.body = NewBody("settle"),
                            !.slots = [i \in Places |-> "free"], !.count = 0]
             full == [c \in Hunters |-> MaxHealth]
  <1>0. Whole(hunters) /\ turn = "stage" /\ StageDoes(g, full) /\ hunters.zero.phase = 0
    BY DEF HuntersInv, Fit, Restart, StageDoes
  <1>1. /\ r.zero.seeded = TRUE /\ r.zero.hp = full /\ r.zero.phase = hunters.zero.phase
        /\ Whole(r)
    <2>1. r.zero.seeded = TRUE /\ r.zero.hp = full /\ r.zero.phase = hunters.zero.phase
      BY <1>0 DEF Whole, HealthRespawn
    <2>2. Whole(r)
      BY <1>0 DEF Whole, HealthRespawn
    <2> QED
      BY <2>1, <2>2
  <1> HIDE DEF r
  <1>2. g.body = NewBody("settle") /\ g.zero = r.zero /\ g.count = 0 /\ g.slots = [i \in Places |-> "free"]
    BY <1>1 DEF Whole
  <1>3. g.world.mode = "entry"
    BY <1>1 DEF Whole, NoWorld
  <1>4. Whole(g)
    BY <1>1 DEF Whole, NoWorld, NewBody
  <1> HIDE DEF g
  <1>5. g.body.gravity = TRUE /\ g.body.prop = FALSE /\ g.body.hp = MaxHealth
    BY <1>2 DEF NewBody
  <1>6. Balanced(g)
    <2>1. Used(g) = {}
      BY <1>2 DEF Used
    <2> QED
      BY <1>2, <2>1, FS_EmptySet DEF Balanced
  <1>7. Fit(g)
    BY <1>3, <1>4, <1>5, <1>6 DEF Fit, Excused
  <1>8. Active(g) \in Hunters /\ Other(g) \in Hunters
    BY <1>4 DEF Whole, Active, Other
  <1>9. Pools(g, full) /\ Seeded(g)
    BY <1>1, <1>2, <1>5, <1>8 DEF Pools, Seeded
  <1> QED
    BY <1>0, <1>1, <1>2, <1>5, <1>7, <1>9, StageKeeps

LEMMA ModeGoesKeeps ==
    ASSUME HuntersInv, NEW from, NEW to, ModeGoes(from, to),
           (from = "entry" /\ to = "play") \/ (from = "play" /\ to = "late")
    PROVE  HuntersInv'
  <1> DEFINE g == [hunters EXCEPT !.world.mode = to]
  <1>0. /\ Whole(hunters) /\ turn = "stage" /\ StageDoes(g, kept) /\ hunters.world.mode = from
        /\ hunters.zero.phase = 0
    BY DEF HuntersInv, Fit, ModeGoes, StageDoes
  <1>1. /\ g.slots = hunters.slots /\ g.count = hunters.count /\ g.body = hunters.body
        /\ g.armor = hunters.armor /\ g.zero = hunters.zero
    BY <1>0 DEF Whole
  <1>2. g.world.mode = to
    BY <1>0 DEF Whole
  <1>3. g.world.cut = hunters.world.cut
    BY <1>0 DEF Whole
  <1>4. Whole(g)
    BY <1>0 DEF Whole
  <1> HIDE DEF g
  <1>5. Balanced(g)
    BY <1>1, SameSlots DEF HuntersInv, Fit
  <1>6. Fit(g)
    BY <1>0, <1>1, <1>2, <1>3, <1>4, <1>5 DEF HuntersInv, Fit, Excused
  <1>7. Pools(g, kept) /\ Seeded(g) /\ ~g.body.prop
    BY <1>0, <1>1, <1>2 DEF HuntersInv, Pools, Seeded, PropOwned, Active, Other
  <1> QED
    BY <1>0, <1>1, <1>6, <1>7, StageKeeps DEF HuntersInv

LEMMA QuitsKeeps == HuntersInv /\ Quits => HuntersInv'
  <1> SUFFICES ASSUME HuntersInv, Quits PROVE HuntersInv'
    OBVIOUS
  <1> DEFINE g == [hunters EXCEPT !.world.mode = "menu", !.slots = [i \in Places |-> "free"],
                                  !.count = 0]
  <1>0. Whole(hunters) /\ turn = "stage" /\ StageDoes(g, kept) /\ hunters.zero.phase = 0
    BY DEF HuntersInv, Fit, Quits, StageDoes
  <1>1. /\ g.body = hunters.body /\ g.zero = hunters.zero /\ g.count = 0
        /\ g.slots = [i \in Places |-> "free"]
    BY <1>0 DEF Whole
  <1>2. g.world.mode = "menu"
    BY <1>0 DEF Whole
  <1>3. Whole(g)
    BY <1>0 DEF Whole
  <1> HIDE DEF g
  <1>4. Balanced(g)
    <2>1. Used(g) = {}
      BY <1>1 DEF Used
    <2> QED
      BY <1>1, <2>1, FS_EmptySet DEF Balanced
  <1>5. Fit(g)
    BY <1>2, <1>3, <1>4 DEF Fit
  <1>6. Pools(g, kept) /\ Seeded(g) /\ ~g.body.prop
    BY <1>0, <1>1, <1>2 DEF HuntersInv, Pools, Seeded, PropOwned, Active, Other
  <1> QED
    BY <1>0, <1>1, <1>5, <1>6, StageKeeps DEF HuntersInv

-----------------------------------------------------------------------------
(* The theorems *)

LEMMA HuntersStep == HuntersInv /\ [PartsNext]_partVars => HuntersInv'
  <1> SUFFICES ASSUME HuntersInv, [PartsNext]_partVars PROVE HuntersInv'
    OBVIOUS
  <1>1. CASE UNCHANGED partVars
    BY <1>1 DEF partVars, HuntersInv, Pools, PropOwned
  <1>2. CASE \E select, keys : Frame(select, keys)
    BY <1>2, FrameKeeps
  <1>3. CASE \E b, see : Player(b, see)
    BY <1>3, PlayerKeeps
  <1>4. CASE \E act, what : BodyMoves(act, what)
    BY <1>4, BodyKeeps
  <1>5. CASE \E sees : ShotsMove(sees)
    BY <1>5, ShotsKeep
  <1>6. CASE \/ NothingElse \/ CoolsDown \/ Heals \/ Doors \/ Pauses \/ Scripted \/ Passage
             \/ Selects \/ HadoukenAward
    BY <1>6, QuietActionsKeep
  <1>7. CASE \E raw, projectile : Hurt(raw, projectile)
    BY <1>7, HurtKeeps
  <1>8. CASE \E i \in Places : ShotContact(i)
    BY <1>8, ShotContactKeeps
  <1>9. CASE Restart \/ Begins \/ Leaves \/ Quits
    BY <1>9, RestartKeeps, ModeGoesKeeps, QuitsKeeps DEF Begins, Leaves
  <1> QED
    BY <1>1, <1>2, <1>3, <1>4, <1>5, <1>6, <1>7, <1>8, <1>9 DEF PartsNext

\* X and Zero share one health in the guest, and each of them has his own:
\* through hits, cures, exchanges, stages and restarts the body holds the
\* active hunter's health and the host's record the other one's
\* (mmx_zero.c, the health pools and the exchange).
THEOREM PoolsKeptAlways == PartsSpec => []PoolsKept
  <1>1. HuntersInv => PoolsKept
    BY DEF HuntersInv, Pools, PoolsKept
  <1> QED
    BY <1>1, HuntersInitially, HuntersStep, PTL DEF PartsSpec

\* Whatever the parts of the armor borrow comes back: the guest's count is
\* the number of its slots in use, the body falls again after each dash and
\* each crash that is not cut off, and nobody stands on a pretended ground
\* behind the update it was for (mmx_x23_armor.c).
THEOREM PartsGiveBackAlways == PartsSpec => []PartsGiveBack
  <1>1. HuntersInv => PartsGiveBack
    BY DEF HuntersInv, Fit, Balanced, Used, Excused, PropOwned, PartsGiveBack
  <1> QED
    BY <1>1, HuntersInitially, HuntersStep, PTL DEF PartsSpec
===============================================================================

---------------------------- MODULE SaberSlash_proof ----------------------------
(***************************************************************************)
(* The four promises of Saber's swings and waves, for every number of      *)
(* slots, every timing of the swings and every limit:                      *)
(* the slots are accounted for, a swing fits its body and survives the     *)
(* frame that it can, and it neither keeps nor lets go of a charge.        *)
(*                                                                         *)
(* A frame applies the modules one after the other to the record Frame, so *)
(* the proof first says of each module what it leaves alone (SwingSide,    *)
(* ComboSide, ZeroSide), and then what the whole chain makes of it.        *)
(***************************************************************************)
EXTENDS SaberSlash, FiniteSetTheorems, NaturalsInduction, WellFoundedInduction, TLAPS

-----------------------------------------------------------------------------
(* The moments between the routines *)

FrameFields == {"act", "pool", "wave", "count", "swing", "obs", "ground", "combo", "zero", "latch",
                "seen"}
WaveFields == {"stage", "birth", "age", "cut", "pulses", "wait"}
SwingFields == {"kind", "tick", "buffer", "slot", "own", "hits"}
ComboFields == {"window", "reserved", "request", "sent", "pre"}
ZeroFields == {"slash", "slot", "charge", "combo", "burst", "fired", "over", "shots"}

Whole(f) ==
    /\ DOMAIN f = FrameFields /\ DOMAIN f.swing = SwingFields /\ DOMAIN f.combo = ComboFields
    /\ DOMAIN f.zero = ZeroFields
    /\ DOMAIN f.pool = Slots /\ DOMAIN f.wave = Slots
    /\ \A d \in Slots : f.pool[d] \in Things /\ DOMAIN f.wave[d] = WaveFields
    /\ f.act \in AllActions /\ f.swing.kind \in Kinds \cup {"none"} /\ f.swing.tick \in Nat
    /\ {f.swing.slot, f.combo.reserved, f.zero.slot} \subseteq Slots \cup {None}
    /\ {f.combo.request, f.combo.sent} \subseteq BOOLEAN

\* The guest's count is the number of its live slots.
Taken(f) == {d \in Slots : Live(f.pool[d])}
Balanced(f) == f.count = Cardinality(Taken(f))
Sound(f) == Whole(f) /\ Balanced(f)

USE DEF FrameFields, WaveFields, SwingFields, ComboFields, ZeroFields

-----------------------------------------------------------------------------
(* Slots that are filled and emptied *)

LEMMA LeastSlot ==
    ASSUME NEW S \in SUBSET Slots, S # {}
    PROVE  First(S) \in S /\ \A e \in S : First(S) <= e
  <1> DEFINE below == {p \in Nat \X Nat : p[1] < p[2]}
  <1>0. S \subseteq Nat
    BY SaberAssumption
  <1>1. IsWellFoundedOn(below, Nat)
    BY NatLessThanWellFounded DEF OpToRel
  <1> HIDE DEF below
  <1>2. PICK m \in S : \A j \in S : <<j, m>> \notin below
    BY <1>0, <1>1, WFMin
  <1>3. ASSUME NEW j \in S PROVE m <= j
    <2>1. j \in Nat /\ m \in Nat
      BY <1>0
    <2>2. <<j, m>> \in Nat \X Nat /\ <<j, m>>[1] = j /\ <<j, m>>[2] = m
      BY <2>1
    <2> QED
      BY <1>2, <2>1, <2>2 DEF below
  <1> QED
    BY <1>3 DEF First

LEMMA FirstHeld ==
    ASSUME NEW f, NEW things, Holding(f, things) # {}
    PROVE  First(Holding(f, things)) \in Slots /\ f.pool[First(Holding(f, things))] \in things
  BY LeastSlot DEF Holding

LEMMA TakenFinite ==
    ASSUME NEW f
    PROVE  IsFiniteSet(Taken(f)) /\ Cardinality(Taken(f)) \in Nat
  BY FS_Subset, FS_CardinalityType, SaberAssumption DEF Taken

\* What Emptied and Filled leave alone.
Same(h, f) ==
    /\ h.act = f.act /\ h.swing = f.swing /\ h.obs = f.obs /\ h.ground = f.ground
    /\ h.combo = f.combo /\ h.zero = f.zero /\ h.latch = f.latch /\ h.seen = f.seen

LEMMA EmptiedSound ==
    ASSUME NEW f, Sound(f), NEW D \in SUBSET Slots
    PROVE  LET h == Emptied(f, D)
           IN  /\ Sound(h) /\ Same(h, f)
               /\ \A d \in Slots : /\ h.pool[d] = IF d \in D THEN "free" ELSE f.pool[d]
                                   /\ h.wave[d] = IF d \in D THEN NoWave ELSE f.wave[d]
  <1> DEFINE h == Emptied(f, D)
             L == {d \in D : Live(f.pool[d])}
  <1>1. Whole(h) /\ Same(h, f)
    BY DEF Emptied, Sound, Whole, Same, Things, NoWave
  <1>2. \A d \in Slots : /\ h.pool[d] = IF d \in D THEN "free" ELSE f.pool[d]
                         /\ h.wave[d] = IF d \in D THEN NoWave ELSE f.wave[d]
    BY DEF Emptied, Sound, Whole
  <1>3. h.count = Less(f.count, Cardinality(L))
    BY DEF Emptied, Sound, Whole
  <1>4. Taken(h) = Taken(f) \ L
    BY <1>2 DEF Taken, Live
  <1>5. L \subseteq Taken(f)
    BY DEF Taken
  <1> HIDE DEF h, L
  <1>6. IsFiniteSet(Taken(f)) /\ IsFiniteSet(L) /\ Cardinality(L) \in Nat /\ Cardinality(Taken(f)) \in Nat
    BY <1>5, TakenFinite, FS_Subset, FS_CardinalityType
  <1>7. Taken(f) \cap L = L
    BY <1>5
  <1>8. Cardinality(Taken(h)) = Cardinality(Taken(f)) - Cardinality(L)
    BY <1>4, <1>6, <1>7, FS_Difference
  <1>9. Cardinality(L) <= Cardinality(Taken(f))
    BY <1>5, <1>6, FS_Subset
  <1>10. Balanced(h)
    BY <1>3, <1>6, <1>8, <1>9 DEF Balanced, Sound, Less
  <1> QED
    BY <1>1, <1>2, <1>10 DEF Sound, h

LEMMA FilledSound ==
    ASSUME NEW f, Sound(f), NEW d \in Slots, ~Live(f.pool[d]), NEW thing \in Things, Live(thing),
           NEW w, DOMAIN w = WaveFields
    PROVE  LET h == Filled(f, d, thing, w)
           IN  /\ Sound(h) /\ Same(h, f)
               /\ \A e \in Slots : /\ h.pool[e] = IF e = d THEN thing ELSE f.pool[e]
                                   /\ h.wave[e] = IF e = d THEN w ELSE f.wave[e]
  <1> DEFINE h == Filled(f, d, thing, w)
  <1>1. Whole(h) /\ Same(h, f)
    BY DEF Filled, Sound, Whole, Same
  <1>2. \A e \in Slots : /\ h.pool[e] = IF e = d THEN thing ELSE f.pool[e]
                         /\ h.wave[e] = IF e = d THEN w ELSE f.wave[e]
    BY DEF Filled, Sound, Whole
  <1>3. h.count = f.count + 1
    BY DEF Filled, Sound, Whole
  <1>4. Taken(h) = Taken(f) \cup {d} /\ d \notin Taken(f)
    BY <1>2 DEF Taken
  <1> HIDE DEF h
  <1>5. Balanced(h)
    BY <1>3, <1>4, TakenFinite, FS_AddElement DEF Balanced, Sound
  <1> QED
    BY <1>1, <1>2, <1>5 DEF Sound, h

-----------------------------------------------------------------------------
(* The swing's module *)

\* It touches its own slots, and leaves those of the wave and of Zero alone.
SwingSide(h, f) ==
    /\ Sound(h)
    /\ h.act = f.act /\ h.combo = f.combo /\ h.zero = f.zero /\ h.latch = f.latch /\ h.seen = f.seen
    /\ \A d \in Slots :
          /\ h.pool[d] = f.pool[d] \/ {h.pool[d], f.pool[d]} \subseteq {"free", "swing"}
          /\ h.pool[d] \in {"held", "wave"} => h.wave[d] = f.wave[d]

\* No slot but the swing's own is tagged.
Loose(f) == Holding(f, {"swing"}) \subseteq {f.swing.slot}
\* The slot is tagged while the swing cuts, and only then has the swing one.
Boxed(f) ==
    /\ Holding(f, {"swing"}) = IF Phase(f.swing) = "active" THEN {f.swing.slot} ELSE {}
    /\ Phase(f.swing) = "active" => f.swing.own
    /\ Phase(f.swing) # "active" => f.swing.slot = None

LEMMA SwingItself == ASSUME NEW f, Sound(f) PROVE SwingSide(f, f)
  BY DEF SwingSide

LEMMA SwingTwice ==
    ASSUME NEW f, NEW g, NEW h, SwingSide(g, f), SwingSide(h, g)
    PROVE  SwingSide(h, f)
  BY DEF SwingSide

LEMMA SameTaken ==
    ASSUME NEW f, NEW h, Balanced(f), h.pool = f.pool, h.count = f.count
    PROVE  Balanced(h)
  BY DEF Balanced, Taken

LEMMA SlotsNotNone == None \notin Slots
  BY SaberAssumption DEF None

LEMMA ExitSide ==
    ASSUME NEW f, Sound(f)
    PROVE  LET h == Exit(f)
           IN  /\ SwingSide(h, f) /\ h.swing = Idle /\ h.obs = NoObs /\ h.ground = f.ground
               /\ Holding(h, {"swing"}) = {} /\ Boxed(h) /\ Loose(h)
               /\ \A d \in Slots : h.pool[d] = IF f.pool[d] = "swing" THEN "free" ELSE f.pool[d]
  <1> DEFINE e == Emptied(f, Holding(f, {"swing"}))
             h == Exit(f)
  <1>1. /\ Sound(e) /\ Same(e, f)
        /\ \A d \in Slots : /\ e.pool[d] = IF d \in Holding(f, {"swing"}) THEN "free" ELSE f.pool[d]
                            /\ e.wave[d] = IF d \in Holding(f, {"swing"}) THEN NoWave ELSE f.wave[d]
    BY EmptiedSound DEF Holding
  <1>2. h = [e EXCEPT !.swing = Idle, !.obs = NoObs]
    BY DEF Exit
  <1> HIDE DEF e, h
  <1>3. Whole(h) /\ Balanced(h)
    BY <1>1, <1>2 DEF Sound, Whole, Balanced, Taken, Idle
  <1>4. /\ h.swing = Idle /\ h.obs = NoObs /\ h.pool = e.pool /\ h.wave = e.wave /\ h.ground = f.ground
        /\ h.act = f.act /\ h.combo = f.combo /\ h.zero = f.zero /\ h.latch = f.latch
        /\ h.seen = f.seen
    BY <1>1, <1>2 DEF Sound, Whole, Same
  <1>5. \A d \in Slots : h.pool[d] = IF f.pool[d] = "swing" THEN "free" ELSE f.pool[d]
    BY <1>1, <1>4 DEF Holding
  <1>6. Holding(h, {"swing"}) = {}
    BY <1>5 DEF Holding
  <1>7. SwingSide(h, f)
    BY <1>1, <1>3, <1>4, <1>5 DEF SwingSide, Sound, Holding
  <1> QED
    BY <1>4, <1>5, <1>6, <1>7 DEF h, Boxed, Loose, Phase, Idle

\* What a press makes of a swing: it ends, goes on, or another one begins
\* that does not yet own the slot.
LEMMA StepSide ==
    ASSUME NEW f, Sound(f), NEW pressed \in BOOLEAN
    PROVE  LET h == Step(f, pressed)
           IN  /\ SwingSide(h, f) /\ h.ground = f.ground
               /\ Loose(f) => Loose(h)
               /\ Holding(f, {"free"}) \subseteq Holding(h, {"free"})
  <1> DEFINE h == Step(f, pressed)
             tick == f.swing.tick + 1
             buffer == f.swing.buffer \/ Buffers(f.swing, tick, pressed)
             aged == [f EXCEPT !.swing.tick = tick, !.swing.buffer = buffer]
  <1>1. \/ h = Exit(f) \/ h = f \/ h = aged
        \/ \E kind \in Kinds : h = Start(f, kind)
    BY SaberAssumption DEF Step, OpeningKind, Chains, NextGround
  <1>0. tick \in Nat
    BY DEF Sound, Whole
  <1>2. CASE h = Exit(f)
    BY <1>2, ExitSide DEF Holding
  <1>3. CASE h = f
    BY <1>3, SwingItself
  <1> HIDE DEF h, tick, buffer
  <1>4. CASE h = aged
    <2>1. h.swing.slot = f.swing.slot /\ h.pool = f.pool /\ h.wave = f.wave /\ h.ground = f.ground
      BY <1>4 DEF Sound, Whole
    <2>2. Sound(h)
      <3>1. Whole(h)
        BY <1>0, <1>4 DEF Sound, Whole
      <3>2. h.pool = f.pool /\ h.count = f.count
        BY <1>4 DEF Sound, Whole
      <3> QED
        BY <3>1, <3>2, SameTaken DEF Sound
    <2>3. /\ h.act = f.act /\ h.combo = f.combo /\ h.zero = f.zero /\ h.latch = f.latch
          /\ h.seen = f.seen
      BY <1>4 DEF Sound, Whole
    <2> QED
      BY <2>1, <2>2, <2>3 DEF SwingSide, Loose, Holding, h
  <1>5. ASSUME NEW kind \in Kinds, h = Start(f, kind)
        PROVE  /\ SwingSide(h, f) /\ h.ground = f.ground
               /\ Loose(f) => Loose(h)
               /\ Holding(f, {"free"}) \subseteq Holding(h, {"free"})
    <2>1. h.swing.slot = f.swing.slot /\ h.pool = f.pool /\ h.wave = f.wave /\ h.ground = f.ground
      BY <1>5 DEF Start, Sound, Whole, Idle
    <2>2. Sound(h)
      <3>1. Whole(h)
        BY <1>5 DEF Start, Sound, Whole, Idle
      <3>2. h.pool = f.pool /\ h.count = f.count
        BY <1>5 DEF Start, Sound, Whole
      <3> QED
        BY <3>1, <3>2, SameTaken DEF Sound
    <2>3. /\ h.act = f.act /\ h.combo = f.combo /\ h.zero = f.zero /\ h.latch = f.latch
          /\ h.seen = f.seen
      BY <1>5 DEF Start, Sound, Whole
    <2> QED
      BY <2>1, <2>2, <2>3 DEF SwingSide, Loose, Holding
  <1> QED
    BY <1>1, <1>2, <1>3, <1>4, <1>5 DEF h

LEMMA ReleaseSide ==
    ASSUME NEW f, Sound(f)
    PROVE  LET h == Release(f)
           IN  /\ SwingSide(h, f) /\ h.swing.slot = None
               /\ Phase(h.swing) = Phase(f.swing) /\ h.swing.kind = f.swing.kind
               /\ h.ground = f.ground
               /\ Loose(f) => \A d \in Slots :
                     h.pool[d] = IF f.pool[d] = "swing" THEN "free" ELSE f.pool[d]
  <1> DEFINE e == IF CurrentTagged(f) THEN Emptied(f, {f.swing.slot}) ELSE f
             h == Release(f)
  <1>1. /\ Sound(e) /\ Same(e, f)
        /\ \A d \in Slots : /\ e.pool[d] = f.pool[d] \/ (f.pool[d] = "swing" /\ e.pool[d] = "free")
                            /\ f.pool[d] # "swing" => e.wave[d] = f.wave[d]
                            /\ Loose(f) /\ f.pool[d] = "swing" => e.pool[d] = "free"
    <2>1. CASE CurrentTagged(f)
      <3>1. f.swing.slot \in Slots /\ e = Emptied(f, {f.swing.slot}) /\ f.pool[f.swing.slot] = "swing"
        BY <2>1 DEF CurrentTagged, Sound, Whole
      <3>2. {f.swing.slot} \in SUBSET Slots
        BY <3>1
      <3>3. Loose(f) => \A d \in Slots : f.pool[d] = "swing" => d = f.swing.slot
        BY DEF Loose, Holding
      <3> HIDE DEF e
      <3> QED
        BY <3>1, <3>2, <3>3, EmptiedSound
    <2>2. CASE ~CurrentTagged(f)
      <3>1. Loose(f) => \A d \in Slots : f.pool[d] # "swing"
        BY <2>2, SlotsNotNone DEF CurrentTagged, Loose, Holding
      <3> QED
        BY <2>2, <3>1 DEF Same
    <2> QED
      BY <2>1, <2>2
  <1>2. h = [e EXCEPT !.swing.slot = None, !.swing.own = FALSE, !.swing.hits = {}]
    BY DEF Release
  <1> HIDE DEF e, h
  <1>3. Sound(h)
    <2>0. Whole(e)
      BY <1>1 DEF Sound
    <2>1. Whole(h)
      BY <2>0, <1>2 DEF Whole
    <2>2. h.pool = e.pool /\ h.count = e.count
      BY <1>1, <1>2 DEF Sound, Whole
    <2> QED
      BY <2>1, <2>2, SameTaken, <1>1, <1>2 DEF Sound
  <1>4. /\ h.pool = e.pool /\ h.wave = e.wave /\ h.ground = f.ground /\ h.act = f.act
        /\ h.combo = f.combo /\ h.zero = f.zero /\ h.latch = f.latch /\ h.seen = f.seen
    BY <1>1, <1>2 DEF Sound, Whole, Same
  <1>5. /\ h.swing.slot = None /\ h.swing.kind = f.swing.kind /\ h.swing.tick = f.swing.tick
    BY <1>1, <1>2 DEF Sound, Whole, Same
  <1>6. SwingSide(h, f)
    BY <1>1, <1>3, <1>4 DEF SwingSide
  <1> QED
    BY <1>1, <1>4, <1>5, <1>6 DEF h, Holding, Phase

LEMMA AllocateSide ==
    ASSUME NEW f, Sound(f), Holding(f, {"free"}) # {}, Phase(f.swing) = "active"
    PROVE  LET h == Allocate(f)
           IN  /\ SwingSide(h, f) /\ h.swing.kind = f.swing.kind /\ h.ground = f.ground
               /\ Holding(f, {"swing"}) = {} => Boxed(h)
  <1> DEFINE d == First(Holding(f, {"free"}))
             e == Filled(f, d, "swing", NoWave)
             h == Allocate(f)
  <1>1. d \in Slots /\ f.pool[d] = "free"
    BY FirstHeld
  <1>2. h = [e EXCEPT !.swing.slot = d, !.swing.own = TRUE, !.swing.hits = {}]
    BY DEF Allocate
  <1> HIDE DEF d
  <1>3. /\ Sound(e) /\ Same(e, f)
        /\ \A c \in Slots : /\ e.pool[c] = IF c = d THEN "swing" ELSE f.pool[c]
                            /\ e.wave[c] = IF c = d THEN NoWave ELSE f.wave[c]
    BY <1>1, FilledSound DEF Live, Things, NoWave
  <1> HIDE DEF e, h
  <1>4. Sound(h)
    <2>0. Whole(e) /\ d \in Slots
      BY <1>1, <1>3 DEF Sound
    <2>1. Whole(h)
      BY <2>0, <1>2 DEF Whole
    <2>2. h.pool = e.pool /\ h.count = e.count
      BY <1>1, <1>2, <1>3 DEF Sound, Whole
    <2> QED
      BY <2>1, <2>2, SameTaken, <1>1, <1>3 DEF Sound
  <1>5. /\ h.pool = e.pool /\ h.wave = e.wave /\ h.ground = f.ground /\ h.act = f.act
        /\ h.combo = f.combo /\ h.zero = f.zero /\ h.latch = f.latch /\ h.seen = f.seen
    BY <1>2, <1>3 DEF Sound, Whole, Same
  <1>6. /\ h.swing.slot = d /\ h.swing.own = TRUE /\ h.swing.kind = f.swing.kind
        /\ h.swing.tick = f.swing.tick
    BY <1>2, <1>3 DEF Sound, Whole, Same
  <1>7. SwingSide(h, f)
    BY <1>1, <1>3, <1>4, <1>5 DEF SwingSide
  <1>8. Holding(f, {"swing"}) = {} => Holding(h, {"swing"}) = {d}
    BY <1>1, <1>3, <1>5 DEF Holding
  <1>9. Phase(h.swing) = "active"
    BY <1>6 DEF Phase
  <1> QED
    BY <1>5, <1>6, <1>7, <1>8, <1>9 DEF h, Boxed

\* After the slots have followed the swing, they belong to it; and the swing
\* goes on if it has its slot or can have one.
LEMMA RuntimeTickSide ==
    ASSUME NEW f, Sound(f)
    PROVE  LET h == RuntimeTick(f)
           IN  /\ SwingSide(h, f) /\ h.ground = f.ground /\ h.swing.kind \in {f.swing.kind, "none"}
               /\ Loose(f) => Boxed(h)
               /\ /\ Loose(f) /\ Holding(f, {"free", "swing"}) # {}
                  /\ f.swing.slot # None /\ f.swing.own => CurrentTagged(f)
                  => h.swing.kind = f.swing.kind
  <1> DEFINE h == RuntimeTick(f)
             g == IF f.swing.slot # None /\ ~f.swing.own THEN Release(f) ELSE f
             going == /\ Holding(f, {"free", "swing"}) # {}
                      /\ f.swing.slot # None /\ f.swing.own => CurrentTagged(f)
  <1>0. SwingSide(f, f)
    BY SwingItself
  <1>1. CASE Phase(f.swing) # "active"
    <2>1. CASE f.swing.slot # None
      <3>1. h = Release(f)
        BY <1>1, <2>1 DEF RuntimeTick
      <3> HIDE DEF h
      <3>2. /\ SwingSide(h, f) /\ h.swing.slot = None
            /\ Phase(h.swing) = Phase(f.swing) /\ h.swing.kind = f.swing.kind
            /\ h.ground = f.ground
            /\ Loose(f) => Holding(h, {"swing"}) = {}
        BY <3>1, ReleaseSide DEF Holding
      <3>3. Loose(f) => Boxed(h)
        BY <1>1, <3>2 DEF Boxed
      <3> QED
        BY <3>2, <3>3 DEF h
    <2>2. CASE f.swing.slot = None
      BY <1>0, <1>1, <2>2, SlotsNotNone DEF RuntimeTick, Boxed, Loose, Holding
    <2> QED
      BY <2>1, <2>2
  <1>2. CASE Phase(f.swing) = "active"
    <2>1. /\ SwingSide(g, f) /\ g.ground = f.ground /\ Phase(g.swing) = "active"
          /\ g.swing.kind = f.swing.kind
          /\ Loose(f) /\ g.swing.slot = None => Holding(g, {"swing"}) = {}
          /\ Loose(f) => Loose(g)
          /\ g.swing.slot # None => g.swing.own
          /\ Loose(f) /\ going =>
                /\ g.swing.slot = None => Holding(g, {"free"}) # {}
                /\ g.swing.slot # None => CurrentTagged(g)
      <3>1. CASE f.swing.slot # None /\ ~f.swing.own
        <4>1. g = Release(f)
          BY <3>1
        <4> HIDE DEF g
        <4>2. /\ SwingSide(g, f) /\ g.swing.slot = None
              /\ Phase(g.swing) = Phase(f.swing) /\ g.swing.kind = f.swing.kind
              /\ g.ground = f.ground
              /\ Loose(f) => \A d \in Slots :
                    g.pool[d] = IF f.pool[d] = "swing" THEN "free" ELSE f.pool[d]
          BY <4>1, ReleaseSide
        <4>3. Loose(f) => Holding(g, {"swing"}) = {} /\ Loose(g)
          BY <4>2 DEF Holding, Loose
        <4>4. Loose(f) /\ Holding(f, {"free", "swing"}) # {} => Holding(g, {"free"}) # {}
          BY <4>2 DEF Holding
        <4> QED
          BY <1>2, <4>2, <4>3, <4>4
      <3>2. CASE ~(f.swing.slot # None /\ ~f.swing.own)
        BY <1>0, <1>2, <3>2, SlotsNotNone DEF Loose, Holding
      <3> QED
        BY <3>1, <3>2
    <2>2. h = IF g.swing.slot = None
              THEN IF Holding(g, {"free"}) = {} THEN Exit(g) ELSE Allocate(g)
              ELSE IF CurrentTagged(g) THEN g ELSE Exit(g)
      BY <1>2, Zenon DEF RuntimeTick
    <2> HIDE DEF g, h, going
    <2>3. Sound(g)
      BY <2>1 DEF SwingSide
    <2>4. CASE h = Exit(g) /\ ~(Loose(f) /\ going)
      <3>1. SwingSide(h, g) /\ Boxed(h) /\ h.ground = g.ground /\ h.swing = Idle
        BY <2>3, <2>4, ExitSide
      <3> QED
        BY <2>1, <2>4, <3>1, SwingTwice DEF Idle, h, going
    <2>5. CASE g.swing.slot = None /\ Holding(g, {"free"}) # {} /\ h = Allocate(g)
      <3>1. /\ SwingSide(h, g) /\ h.ground = g.ground /\ h.swing.kind = g.swing.kind
            /\ Holding(g, {"swing"}) = {} => Boxed(h)
        BY <2>1, <2>3, <2>5, AllocateSide
      <3> QED
        BY <2>1, <2>5, <3>1, SwingTwice DEF h
    <2>6. CASE g.swing.slot # None /\ CurrentTagged(g) /\ h = g
      <3>1. Loose(f) => Boxed(g)
        BY <2>1, <2>3, <2>6 DEF Boxed, Loose, CurrentTagged, Holding, Sound, Whole
      <3> QED
        BY <2>1, <2>6, <3>1 DEF h
    <2> QED
      BY <2>1, <2>2, <2>4, <2>5, <2>6
  <1> QED
    BY <1>1, <1>2

\* Behind the native player, the swing that no longer suits the body ends.
LEMMA AttackEndSide ==
    ASSUME NEW f, Sound(f)
    PROVE  LET h == AttackEnd(f)
           IN  /\ SwingSide(h, f) /\ h.ground = Grounded(f.act)
               /\ Boxed(f) => Boxed(h)
               /\ h.swing.kind \in {f.swing.kind, "none"}
               /\ h.swing.kind = "wall" => f.act = "wall"
               /\ h.swing.kind = "air" => f.ground \/ ~Grounded(f.act)
  <1> DEFINE g == [f EXCEPT !.obs = NoObs, !.ground = Grounded(f.act)]
             h == AttackEnd(f)
  <1>1. \/ h = Exit(g)
        \/ /\ h = g /\ ~(f.swing.kind = "wall" /\ f.act # "wall")
           /\ ~(~f.ground /\ Grounded(f.act) /\ f.swing.kind = "air")
    BY DEF AttackEnd
  <1>2. Sound(g)
    BY DEF Sound, Whole, Balanced, Taken
  <1>3. /\ g.pool = f.pool /\ g.wave = f.wave /\ g.swing = f.swing /\ g.act = f.act
        /\ g.combo = f.combo /\ g.zero = f.zero /\ g.latch = f.latch /\ g.seen = f.seen
        /\ g.ground = Grounded(f.act)
    BY DEF Sound, Whole
  <1> HIDE DEF g, h
  <1>4. SwingSide(g, f) /\ (Boxed(f) => Boxed(g))
    BY <1>2, <1>3 DEF SwingSide, Boxed, Holding
  <1>5. CASE h = Exit(g)
    <2>1. SwingSide(h, g) /\ Boxed(h) /\ h.swing = Idle /\ h.ground = g.ground
      BY <1>2, <1>5, ExitSide
    <2>2. SwingSide(h, f) /\ h.swing.kind = "none"
      BY <1>4, <2>1, SwingTwice DEF Idle
    <2> QED
      BY <1>3, <2>1, <2>2 DEF h
  <1>6. CASE h = g /\ ~(f.swing.kind = "wall" /\ f.act # "wall")
             /\ ~(~f.ground /\ Grounded(f.act) /\ f.swing.kind = "air")
    BY <1>3, <1>4, <1>6 DEF h
  <1> QED
    BY <1>1, <1>5, <1>6

-----------------------------------------------------------------------------
(* The finisher's window and the slot kept for its wave *)

\* The combo's module touches the slots of the wave, and leaves those of the
\* swing and of Zero alone.
ComboSide(h, f) ==
    /\ Sound(h)
    /\ h.act = f.act /\ h.swing = f.swing /\ h.obs = f.obs /\ h.ground = f.ground
    /\ h.zero = f.zero /\ h.latch = f.latch /\ h.seen = f.seen
    /\ \A d \in Slots : h.pool[d] = f.pool[d] \/ {h.pool[d], f.pool[d]} \subseteq {"free", "held", "wave"}

\* The slot that is kept for a wave is the one the combo names, and it is kept
\* in this stage; and so are the waves that fly.
Kept(f) ==
    /\ Holding(f, {"held"}) = {f.combo.reserved} \ {None}
    /\ \A d \in Holding(f, {"held"}) : f.wave[d].stage = stage
WavesHere(f) == \A d \in Holding(f, {"wave"}) : f.wave[d].stage = stage

\* Why it is kept: between two frames a finisher is on its way to its wave;
\* while the native player runs it may also have been asked for only.
Waits(f) ==
    /\ ~f.combo.request /\ ~f.combo.sent
    /\ f.combo.reserved # None =>
          f.zero.slash \in 1 .. SlashWave - 1 /\ f.act \in Playable /\ ~special
Asked(f) ==
    /\ f.combo.sent => ~f.combo.request /\ f.zero.slash \in {0, 1}
    /\ f.combo.reserved # None =>
          /\ f.act # "away"
          /\ ~f.combo.request => ~special
          /\ ~f.combo.request /\ ~f.combo.sent => f.zero.slash \in 1 .. SlashWave

LEMMA ComboItself == ASSUME NEW f, Sound(f) PROVE ComboSide(f, f)
  BY DEF ComboSide

LEMMA ComboTwice ==
    ASSUME NEW f, NEW g, NEW h, ComboSide(g, f), ComboSide(h, g)
    PROVE  ComboSide(h, f)
  BY DEF ComboSide

LEMMA ReleaseReservationSide ==
    ASSUME NEW f, Sound(f)
    PROVE  LET h == ReleaseReservation(f)
           IN  /\ ComboSide(h, f) /\ h.combo.reserved = None
               /\ Kept(f) => Kept(h) /\ Holding(h, {"held"}) = {}
               /\ Holding(h, {"wave"}) = Holding(f, {"wave"})
               /\ Holding(f, {"free"}) \subseteq Holding(h, {"free"})
               /\ \A d \in Holding(f, {"wave"}) : h.wave[d] = f.wave[d]
               /\ h.combo.request = f.combo.request /\ h.combo.sent = f.combo.sent
               /\ h.combo.window = f.combo.window /\ h.combo.pre = f.combo.pre
  <1> DEFINE d == f.combo.reserved
             e == IF d # None /\ f.pool[d] = "held" THEN Emptied(f, {d}) ELSE f
             h == ReleaseReservation(f)
  <1>1. /\ Sound(e) /\ Same(e, f)
        /\ \A c \in Slots : /\ e.pool[c] = f.pool[c] \/ (f.pool[c] = "held" /\ e.pool[c] = "free")
                            /\ f.pool[c] # "held" => e.wave[c] = f.wave[c]
                            /\ Kept(f) => e.pool[c] # "held"
    <2>0. d \in Slots \cup {None}
      BY DEF Sound, Whole
    <2>1. CASE d # None /\ f.pool[d] = "held"
      <3>1. d \in Slots /\ {d} \in SUBSET Slots /\ e = Emptied(f, {d})
        BY <2>0, <2>1
      <3>2. Kept(f) => \A c \in Slots : f.pool[c] = "held" => c = d
        BY DEF Kept, Holding
      <3> HIDE DEF d, e
      <3> QED
        BY <2>1, <3>1, <3>2, EmptiedSound
    <2>2. CASE ~(d # None /\ f.pool[d] = "held")
      <3>1. Kept(f) => \A c \in Slots : f.pool[c] # "held"
        BY <2>2, SlotsNotNone DEF Kept, Holding
      <3> QED
        BY <2>2, <3>1 DEF Same
    <2> QED
      BY <2>1, <2>2
  <1>2. h = [e EXCEPT !.combo.reserved = None]
    BY DEF ReleaseReservation
  <1> HIDE DEF e, h
  <1>3. Sound(h)
    <2>1. Whole(e)
      BY <1>1 DEF Sound
    <2>2. Whole(h)
      BY <2>1, <1>2 DEF Whole
    <2>3. h.pool = e.pool /\ h.count = e.count
      BY <2>1, <1>2 DEF Whole
    <2> QED
      BY <2>2, <2>3, SameTaken, <1>1 DEF Sound
  <1>4. /\ h.pool = e.pool /\ h.wave = e.wave /\ h.ground = f.ground /\ h.act = f.act
        /\ h.swing = f.swing /\ h.obs = f.obs /\ h.zero = f.zero /\ h.latch = f.latch
        /\ h.seen = f.seen
    BY <1>1, <1>2 DEF Sound, Whole, Same
  <1>5. /\ h.combo.reserved = None /\ h.combo.request = f.combo.request
        /\ h.combo.sent = f.combo.sent /\ h.combo.window = f.combo.window
        /\ h.combo.pre = f.combo.pre
    BY <1>1, <1>2 DEF Sound, Whole, Same
  <1>6. ComboSide(h, f)
    BY <1>1, <1>3, <1>4 DEF ComboSide
  <1>7. Kept(f) => Holding(h, {"held"}) = {}
    BY <1>1, <1>4 DEF Holding
  <1> QED
    BY <1>1, <1>4, <1>5, <1>6, <1>7 DEF h, Kept, Holding

LEMMA ComboCancelSide ==
    ASSUME NEW f, Sound(f)
    PROVE  LET h == ComboCancel(f)
           IN  /\ ComboSide(h, f) /\ h.combo = NoCombo /\ Waits(h) /\ Asked(h)
               /\ Kept(f) => Kept(h) /\ Holding(h, {"held"}) = {}
               /\ Holding(h, {"wave"}) = Holding(f, {"wave"})
               /\ Holding(f, {"free"}) \subseteq Holding(h, {"free"})
               /\ \A d \in Holding(f, {"wave"}) : h.wave[d] = f.wave[d]
  <1> DEFINE e == ReleaseReservation(f)
             h == ComboCancel(f)
  <1>1. h = [e EXCEPT !.combo = NoCombo]
    BY DEF ComboCancel
  <1>2. /\ ComboSide(e, f) /\ (Kept(f) => Holding(e, {"held"}) = {})
        /\ Holding(e, {"wave"}) = Holding(f, {"wave"})
        /\ Holding(f, {"free"}) \subseteq Holding(e, {"free"})
        /\ \A d \in Holding(f, {"wave"}) : e.wave[d] = f.wave[d]
    BY ReleaseReservationSide
  <1> HIDE DEF e, h
  <1>3. Whole(e) /\ Balanced(e)
    BY <1>2 DEF ComboSide, Sound
  <1>4. Whole(h)
    BY <1>1, <1>3 DEF Whole, NoCombo
  <1>5. /\ h.pool = e.pool /\ h.wave = e.wave /\ h.ground = e.ground /\ h.act = e.act
        /\ h.swing = e.swing /\ h.obs = e.obs /\ h.zero = e.zero /\ h.latch = e.latch
        /\ h.seen = e.seen /\ h.count = e.count /\ h.combo = NoCombo
    BY <1>1, <1>3 DEF Whole
  <1>6. Sound(h)
    BY <1>3, <1>4, <1>5, SameTaken DEF Sound
  <1>7. ComboSide(h, f)
    BY <1>2, <1>5, <1>6 DEF ComboSide
  <1>8. \A T : Holding(h, T) = Holding(e, T)
    BY <1>5 DEF Holding
  <1>9. Kept(f) => Kept(h)
    BY <1>2, <1>5, <1>8 DEF Kept, NoCombo
  <1>10. Waits(h) /\ Asked(h)
    BY <1>5 DEF Waits, Asked, NoCombo
  <1> QED
    BY <1>2, <1>5, <1>7, <1>8, <1>9, <1>10 DEF h

\* In a new stage, or in one that was not seen to begin, nothing is kept.
LEMMA ObserveStageSide ==
    ASSUME NEW f, Sound(f)
    PROVE  LET h == ObserveStage(f)
           IN  /\ Sound(h)
               /\ h.act = f.act /\ h.swing = f.swing /\ h.obs = f.obs /\ h.ground = f.ground
               /\ h.zero = f.zero /\ h.latch = f.latch /\ h.combo \in {f.combo, NoCombo}
               /\ Holding(h, {"swing"}) = Holding(f, {"swing"})
               /\ Holding(f, {"free"}) \subseteq Holding(h, {"free"})
               /\ Kept(f) /\ WavesHere(f) /\ Waits(f) => Kept(h) /\ WavesHere(h) /\ Waits(h)
  <1> DEFINE stale == {d \in Holding(f, {"held", "wave"}) : f.wave[d].stage # stage}
             e == Emptied(f, stale)
             g == [e EXCEPT !.seen = stage]
             h == ObserveStage(f)
  <1>1. h = IF stale # {} \/ f.seen # stage THEN ComboCancel(g) ELSE g
    BY DEF ObserveStage
  <1>2. Kept(f) /\ WavesHere(f) => stale = {}
    BY DEF Kept, WavesHere, Holding
  <1>3. stale \in SUBSET Slots /\ \A d \in stale : f.pool[d] \in {"held", "wave"}
    BY DEF Holding
  <1>4. /\ Sound(e) /\ Same(e, f)
        /\ \A d \in Slots : /\ e.pool[d] = IF d \in stale THEN "free" ELSE f.pool[d]
                            /\ e.wave[d] = IF d \in stale THEN NoWave ELSE f.wave[d]
    <2> HIDE DEF stale
    <2> QED
      BY <1>3, EmptiedSound
  <1> HIDE DEF e, h, stale
  <1>5. /\ Sound(g) /\ g.pool = e.pool /\ g.wave = e.wave /\ g.act = f.act /\ g.swing = f.swing
        /\ g.obs = f.obs /\ g.ground = f.ground /\ g.zero = f.zero /\ g.latch = f.latch
        /\ g.combo = f.combo
    <2>1. Whole(e)
      BY <1>4 DEF Sound
    <2>2. Whole(g)
      BY <2>1 DEF Whole
    <2>3. g.pool = e.pool /\ g.count = e.count
      BY <2>1 DEF Whole
    <2>4. /\ g.wave = e.wave /\ g.act = e.act /\ g.swing = e.swing
          /\ g.obs = e.obs /\ g.ground = e.ground /\ g.zero = e.zero /\ g.latch = e.latch
          /\ g.combo = e.combo
      BY <2>1 DEF Whole
    <2>5. Sound(g)
      BY <2>2, <2>3, <1>4, SameTaken DEF Sound
    <2> QED
      BY <2>3, <2>4, <2>5, <1>4 DEF Same
  <1> HIDE DEF g
  <1>6. /\ Holding(g, {"swing"}) = Holding(f, {"swing"})
        /\ Holding(f, {"free"}) \subseteq Holding(g, {"free"})
    BY <1>3, <1>4, <1>5 DEF Holding
  <1>7. Kept(f) /\ WavesHere(f) /\ Waits(f) => Kept(g) /\ WavesHere(g) /\ Waits(g)
    <2>1. Kept(f) /\ WavesHere(f) => \A d \in Slots : g.pool[d] = f.pool[d] /\ g.wave[d] = f.wave[d]
      BY <1>2, <1>4, <1>5
    <2>2. Kept(f) /\ WavesHere(f) => \A T : Holding(g, T) = Holding(f, T)
      BY <2>1 DEF Holding
    <2> QED
      BY <1>5, <2>1, <2>2 DEF Kept, WavesHere, Waits, Holding
  <1>8. CASE h = g
    BY <1>5, <1>6, <1>7, <1>8 DEF h
  <1>9. CASE h = ComboCancel(g)
    <2>1. /\ ComboSide(h, g) /\ (Kept(g) => Kept(h)) /\ h.combo = NoCombo /\ Waits(h)
          /\ Holding(h, {"wave"}) = Holding(g, {"wave"})
          /\ Holding(g, {"free"}) \subseteq Holding(h, {"free"})
          /\ \A d \in Holding(g, {"wave"}) : h.wave[d] = g.wave[d]
      BY <1>5, <1>9, ComboCancelSide
    <2>2. WavesHere(g) => WavesHere(h)
      BY <2>1 DEF WavesHere
    <2>3. Holding(h, {"swing"}) = Holding(g, {"swing"})
      BY <2>1 DEF ComboSide, Holding
    <2> QED
      BY <1>5, <1>6, <1>7, <2>1, <2>2, <2>3 DEF ComboSide, h
  <1> QED
    BY <1>1, <1>8, <1>9

\* The finisher's press reserves the slot for its wave, and leaves another.
LEMMA ReserveSide ==
    ASSUME NEW f, Sound(f)
    PROVE  LET h == Reserve(f)
           IN  /\ ComboSide(h, f)
               /\ Kept(f) /\ f.combo.reserved = None =>
                     Kept(h) /\ (h.combo.reserved # None => h.combo.request)
               /\ Holding(h, {"wave"}) = Holding(f, {"wave"})
               /\ \A d \in Holding(f, {"wave"}) : h.wave[d] = f.wave[d]
               /\ Holding(f, {"free"}) # {} => Holding(h, {"free"}) # {}
               /\ h.combo.window = f.combo.window /\ h.combo.pre = f.combo.pre
               /\ h.combo.sent = f.combo.sent
               /\ h.combo.request \in {f.combo.request, TRUE}
  <1> DEFINE d == First(Holding(f, {"free"}))
             h == Reserve(f)
  <1>1. CASE ~CanReserve(f)
    BY <1>1, ComboItself DEF Reserve
  <1>2. CASE CanReserve(f)
    <2>0. IsFiniteSet(Holding(f, {"free"})) /\ Cardinality(Holding(f, {"free"})) >= 2
      BY <1>2, FS_Subset, SaberAssumption DEF CanReserve, Holding
    <2>1. Holding(f, {"free"}) # {} /\ Holding(f, {"free"}) # {d}
      BY <2>0, FS_EmptySet, FS_Singleton
    <2>2. d \in Slots /\ f.pool[d] = "free"
      BY <2>1, FirstHeld
    <2>3. PICK c \in Slots : f.pool[c] = "free" /\ c # d
      BY <2>1, <2>2 DEF Holding
    <2>4. h = [f EXCEPT !.pool[d] = "held", !.wave[d] = NewWave(stage),
                        !.combo.reserved = d, !.combo.request = TRUE]
      BY <1>2 DEF Reserve
    <2> HIDE DEF d, h
    <2>5. Whole(f) /\ Balanced(f)
      BY DEF Sound
    <2>7. /\ \A e \in Slots : h.pool[e] = IF e = d THEN "held" ELSE f.pool[e]
          /\ \A e \in Slots : h.wave[e] = IF e = d THEN NewWave(stage) ELSE f.wave[e]
      BY <2>4, <2>5 DEF Whole
    <2>8. /\ h.count = f.count /\ h.ground = f.ground /\ h.act = f.act
          /\ h.swing = f.swing /\ h.obs = f.obs /\ h.zero = f.zero /\ h.latch = f.latch
          /\ h.seen = f.seen
      BY <2>4, <2>5 DEF Whole
    <2>9. /\ h.combo.reserved = d /\ h.combo.request = TRUE /\ h.combo.sent = f.combo.sent
          /\ h.combo.window = f.combo.window /\ h.combo.pre = f.combo.pre
      BY <2>4, <2>5 DEF Whole
    <2>6. Whole(h)
      <3>1. /\ DOMAIN h = FrameFields /\ DOMAIN h.combo = ComboFields
            /\ DOMAIN h.pool = Slots /\ DOMAIN h.wave = Slots
        BY <2>4, <2>5 DEF Whole
      <3>2. "held" \in Things /\ DOMAIN NewWave(stage) = WaveFields
        BY DEF Things, NewWave, NoWave
      <3>3. \A e \in Slots : h.pool[e] \in Things /\ DOMAIN h.wave[e] = WaveFields
        BY <2>5, <2>7, <3>2 DEF Whole
      <3> QED
        <4>1. {h.swing.slot, h.combo.reserved, h.zero.slot} \subseteq Slots \cup {None}
          BY <2>2, <2>5, <2>8, <2>9 DEF Whole
        <4>2. {h.combo.request, h.combo.sent} \subseteq BOOLEAN
          BY <2>5, <2>9 DEF Whole
        <4>3. /\ DOMAIN h.swing = SwingFields /\ DOMAIN h.zero = ZeroFields /\ h.act \in AllActions
              /\ h.swing.kind \in Kinds \cup {"none"} /\ h.swing.tick \in Nat
          BY <2>5, <2>8 DEF Whole
        <4> QED
          BY <3>1, <3>3, <4>1, <4>2, <4>3 DEF Whole
    <2>10. Taken(h) = Taken(f)
      BY <2>2, <2>7 DEF Taken, Live
    <2>11. ComboSide(h, f)
      BY <2>2, <2>5, <2>6, <2>7, <2>8, <2>10 DEF ComboSide, Sound, Balanced
    <2>12. Kept(f) /\ f.combo.reserved = None => Holding(f, {"held"}) = {}
      BY DEF Kept
    <2>13. Kept(f) /\ f.combo.reserved = None => Holding(h, {"held"}) = {d}
      BY <2>2, <2>7, <2>12 DEF Holding
    <2>14. h.wave[d].stage = stage
      BY <2>2, <2>7 DEF NewWave, NoWave
    <2>15. Kept(f) /\ f.combo.reserved = None => Kept(h)
      BY <2>2, <2>9, <2>13, <2>14, SlotsNotNone DEF Kept
    <2>16. Holding(h, {"wave"}) = Holding(f, {"wave"}) /\ c \in Holding(h, {"free"})
      BY <2>2, <2>3, <2>7 DEF Holding
    <2>17. \A e \in Holding(f, {"wave"}) : h.wave[e] = f.wave[e]
      BY <2>2, <2>7 DEF Holding
    <2> QED
      BY <2>9, <2>11, <2>15, <2>16, <2>17 DEF h
  <1> QED
    BY <1>1, <1>2

LEMMA ComboPreSide ==
    ASSUME NEW f, Sound(f), ~f.combo.request, ~f.combo.sent, NEW pressed \in BOOLEAN
    PROVE  LET h == ComboPre(f, pressed)
           IN  /\ ComboSide(h, f)
               /\ Holding(f, {"free"}) # {} => Holding(h, {"free"}) # {}
               /\ ~h.combo.sent
               /\ h.combo.window = IF Claims(f, pressed) THEN 0 ELSE Less(f.combo.window, 1)
               /\ h.combo.pre.burst = f.zero.burst
               /\ h.combo.request => Claims(f, pressed)
               /\ Kept(f) /\ WavesHere(f) /\ Waits(f) =>
                     /\ Kept(h) /\ WavesHere(h)
                     /\ h.combo.reserved # None =>
                           h.combo.request \/ h.combo.reserved = f.combo.reserved
  <1> DEFINE pre == [valid |-> TRUE, live |-> LiveBurst(f), burst |-> f.zero.burst]
             window == IF Claims(f, pressed) THEN 0 ELSE Less(f.combo.window, 1)
             g == [f EXCEPT !.combo.pre = pre, !.combo.window = window]
             h == ComboPre(f, pressed)
  <1>1. h = IF Claims(f, pressed) /\ ~f.combo.request /\ ~f.combo.sent THEN Reserve(g) ELSE g
    BY DEF ComboPre
  <1>2. pre.burst = f.zero.burst
    OBVIOUS
  <1> HIDE DEF pre, window, h
  <1>3. Whole(f)
    BY DEF Sound
  <1>4. Whole(g)
    BY <1>3 DEF Whole
  <1>5. /\ g.pool = f.pool /\ g.wave = f.wave /\ g.ground = f.ground /\ g.act = f.act
        /\ g.swing = f.swing /\ g.obs = f.obs /\ g.zero = f.zero /\ g.latch = f.latch
        /\ g.seen = f.seen /\ g.count = f.count
    BY <1>3 DEF Whole
  <1>6. /\ g.combo.reserved = f.combo.reserved /\ g.combo.request = f.combo.request
        /\ g.combo.sent = f.combo.sent /\ g.combo.pre = pre /\ g.combo.window = window
    BY <1>3 DEF Whole
  <1> HIDE DEF g
  <1>7. Sound(g)
    BY <1>4, <1>5, SameTaken DEF Sound
  <1>8. \A T : Holding(g, T) = Holding(f, T)
    BY <1>5 DEF Holding
  <1>9. ComboSide(g, f) /\ (Kept(f) => Kept(g)) /\ (WavesHere(f) => WavesHere(g))
    BY <1>5, <1>6, <1>7, <1>8 DEF ComboSide, Kept, WavesHere, Holding
  <1>10. ~f.combo.request /\ ~f.combo.sent
    OBVIOUS
  <1>11. CASE ~Claims(f, pressed)
    <2>1. h = g
      BY <1>1, <1>11
    <2>2. h.combo.window = Less(f.combo.window, 1) /\ h.combo.pre.burst = f.zero.burst
      BY <1>2, <1>6, <1>11, <2>1 DEF window
    <2>3. ~h.combo.request /\ ~h.combo.sent /\ h.combo.request = f.combo.request
      BY <1>6, <1>10, <2>1
    <2> QED
      BY <1>6, <1>8, <1>9, <1>11, <2>1, <2>2, <2>3 DEF h
  <1>12. CASE Claims(f, pressed)
    <2>1. h = Reserve(g)
      BY <1>1, <1>10, <1>12
    <2>2. Waits(f) => f.combo.reserved = None
      BY <1>12 DEF Claims, Waits
    <2>3. /\ ComboSide(h, g)
          /\ Kept(g) /\ g.combo.reserved = None =>
                Kept(h) /\ (h.combo.reserved # None => h.combo.request)
          /\ Holding(h, {"wave"}) = Holding(g, {"wave"})
          /\ \A d \in Holding(g, {"wave"}) : h.wave[d] = g.wave[d]
          /\ Holding(g, {"free"}) # {} => Holding(h, {"free"}) # {}
          /\ h.combo.window = g.combo.window /\ h.combo.pre = g.combo.pre
          /\ h.combo.sent = g.combo.sent
          /\ h.combo.request \in {g.combo.request, TRUE}
      BY <1>7, <2>1, ReserveSide
    <2>4. ComboSide(h, f) /\ (WavesHere(f) => WavesHere(h))
      BY <1>9, <2>3, ComboTwice DEF WavesHere
    <2>5. h.combo.window = 0 /\ h.combo.pre.burst = f.zero.burst
      BY <1>2, <1>6, <1>12, <2>3 DEF window
    <2> QED
      BY <1>6, <1>8, <1>9, <1>10, <1>12, <2>2, <2>3, <2>4, <2>5 DEF h
  <1> QED
    BY <1>11, <1>12

\* The kept slot becomes the wave.
LEMMA PublishSide ==
    ASSUME NEW f, Sound(f), f.combo.reserved # None
    PROVE  LET h == Publish(f)
           IN  /\ ComboSide(h, f) /\ h.combo.reserved = None
               /\ Kept(f) => Kept(h)
               /\ h.combo.window = f.combo.window /\ h.combo.pre = f.combo.pre
               /\ h.combo.request = f.combo.request /\ h.combo.sent = f.combo.sent
  <1> DEFINE d == f.combo.reserved
             w == [NewWave(stage) EXCEPT !.birth = TRUE]
             g == [f EXCEPT !.combo.reserved = None]
             h == Publish(f)
  <1>1. h = IF f.pool[d] = "held" THEN Filled(g, d, "wave", w) ELSE g
    BY Zenon DEF Publish
  <1>2. DOMAIN w = WaveFields
    BY DEF NewWave, NoWave
  <1>3. Whole(f)
    BY DEF Sound
  <1>4. d \in Slots
    BY <1>3 DEF Whole
  <1> HIDE DEF d, w, h
  <1>5. Whole(g)
    BY <1>3 DEF Whole
  <1>6. /\ g.pool = f.pool /\ g.wave = f.wave /\ g.ground = f.ground /\ g.act = f.act
        /\ g.swing = f.swing /\ g.obs = f.obs /\ g.zero = f.zero /\ g.latch = f.latch
        /\ g.seen = f.seen /\ g.count = f.count
    BY <1>3 DEF Whole
  <1>7. /\ g.combo.reserved = None /\ g.combo.request = f.combo.request
        /\ g.combo.sent = f.combo.sent /\ g.combo.pre = f.combo.pre
        /\ g.combo.window = f.combo.window
    BY <1>3 DEF Whole
  <1> HIDE DEF g
  <1>8. Sound(g)
    BY <1>5, <1>6, SameTaken DEF Sound
  <1>9. Live("wave") /\ "wave" \in Things /\ ~Live("held")
    BY DEF Live, Things
  <1>10. CASE f.pool[d] = "held"
    <2>1. /\ Sound(h) /\ Same(h, g)
          /\ \A c \in Slots : /\ h.pool[c] = IF c = d THEN "wave" ELSE g.pool[c]
                              /\ h.wave[c] = IF c = d THEN w ELSE g.wave[c]
      BY <1>1, <1>2, <1>4, <1>6, <1>8, <1>9, <1>10, FilledSound
    <2>2. ComboSide(h, f)
      BY <1>4, <1>6, <1>10, <2>1 DEF ComboSide, Same
    <2>3. Kept(f) => Holding(h, {"held"}) = {}
      <3>1. Kept(f) => Holding(f, {"held"}) = {d}
        BY <1>4, SlotsNotNone DEF Kept, d
      <3> QED
        BY <1>6, <2>1, <3>1 DEF Holding
    <2>4. h.combo.reserved = None /\ (Kept(f) => Kept(h))
      BY <1>7, <2>1, <2>3 DEF Same, Kept
    <2> QED
      BY <1>7, <2>1, <2>2, <2>4 DEF Same, h
  <1>11. CASE f.pool[d] # "held"
    <2>1. h = g
      BY <1>1, <1>11
    <2>2. ComboSide(g, f)
      BY <1>6, <1>8 DEF ComboSide
    <2>3. ~Kept(f)
      BY <1>4, <1>11, SlotsNotNone DEF Kept, Holding, d
    <2> QED
      BY <1>7, <2>1, <2>2, <2>3 DEF h
  <1> QED
    BY <1>10, <1>11

\* Behind the native player nothing is asked for, and what is kept is kept
\* for a finisher that is on its way.
LEMMA ComboEndSide ==
    ASSUME NEW f, Sound(f), f.combo.sent => ~f.combo.request /\ f.zero.slash \in {0, 1}
    PROVE  LET h == ComboEnd(f)
           IN  /\ ComboSide(h, f)
               /\ ~h.combo.request /\ ~h.combo.sent
               /\ Kept(f) => Kept(h)
               /\ Asked(f) /\ h.combo.reserved # None =>
                     h.zero.slash \in 1 .. SlashWave - 1 /\ ~special
               /\ h.combo.window = IF OpensWindow(f) THEN WindowFrames ELSE f.combo.window
  <1> DEFINE window == IF OpensWindow(f) THEN WindowFrames ELSE f.combo.window
             g == [f EXCEPT !.combo.window = window, !.combo.pre = NoPre]
             e == IF g.zero.slash = SlashWave /\ g.combo.reserved # None THEN Publish(g) ELSE g
             h == ComboEnd(f)
  <1>1. h = Resolve(e)
    BY DEF ComboEnd
  <1> HIDE DEF window, h
  <1>2. Whole(f)
    BY DEF Sound
  <1>3. Whole(g)
    BY <1>2 DEF Whole
  <1>4. /\ g.pool = f.pool /\ g.wave = f.wave /\ g.ground = f.ground /\ g.act = f.act
        /\ g.swing = f.swing /\ g.obs = f.obs /\ g.zero = f.zero /\ g.latch = f.latch
        /\ g.seen = f.seen /\ g.count = f.count
    BY <1>2 DEF Whole
  <1>5. /\ g.combo.reserved = f.combo.reserved /\ g.combo.request = f.combo.request
        /\ g.combo.sent = f.combo.sent /\ g.combo.window = window
    BY <1>2 DEF Whole
  <1> HIDE DEF g
  <1>6. Sound(g)
    BY <1>3, <1>4, SameTaken DEF Sound
  <1>7. ComboSide(g, f) /\ (Kept(f) => Kept(g))
    BY <1>4, <1>5, <1>6 DEF ComboSide, Kept, Holding
  <1>8. /\ ComboSide(e, f) /\ (Kept(f) => Kept(e)) /\ e.combo.window = window /\ e.zero = f.zero
        /\ e.combo.request = f.combo.request /\ e.combo.sent = f.combo.sent
        /\ e.combo.reserved \in {None, f.combo.reserved}
        /\ e.combo.reserved # None => f.zero.slash # SlashWave
    <2>1. CASE g.zero.slash = SlashWave /\ g.combo.reserved # None
      <3>1. e = Publish(g)
        BY <2>1
      <3> HIDE DEF e
      <3>2. /\ ComboSide(e, g) /\ (Kept(g) => Kept(e)) /\ e.combo.reserved = None
            /\ e.combo.window = g.combo.window
            /\ e.combo.request = g.combo.request /\ e.combo.sent = g.combo.sent
        BY <1>6, <2>1, <3>1, PublishSide
      <3>3. ComboSide(e, f)
        BY <1>7, <3>2, ComboTwice
      <3> QED
        BY <1>5, <1>7, <3>2, <3>3 DEF ComboSide
    <2>2. CASE ~(g.zero.slash = SlashWave /\ g.combo.reserved # None)
      <3>1. e = g
        BY <2>2
      <3> QED
        BY <1>4, <1>5, <1>7, <2>2, <3>1
    <2> QED
      BY <2>1, <2>2
  <1> HIDE DEF e
  <1>9. Sound(e) /\ Whole(e)
    BY <1>8 DEF ComboSide, Sound
  <1>10. 1 \in 1 .. SlashWave - 1
    BY SaberAssumption
  <1> DEFINE calm == [e EXCEPT !.combo.sent = FALSE]
             quiet == [e EXCEPT !.combo.request = FALSE]
  <1>11. /\ Sound(calm) /\ (Kept(f) => Kept(calm)) /\ ComboSide(calm, f) /\ ~calm.combo.sent
         /\ calm.combo.request = e.combo.request /\ calm.combo.reserved = e.combo.reserved
         /\ calm.zero = f.zero /\ calm.combo.window = window
    <2>1. Whole(calm)
      BY <1>9 DEF Whole
    <2>2. /\ calm.pool = e.pool /\ calm.wave = e.wave /\ calm.ground = e.ground
          /\ calm.act = e.act /\ calm.swing = e.swing /\ calm.obs = e.obs /\ calm.zero = e.zero
          /\ calm.latch = e.latch /\ calm.seen = e.seen /\ calm.count = e.count
      BY <1>9 DEF Whole
    <2>3. /\ calm.combo.reserved = e.combo.reserved /\ calm.combo.request = e.combo.request
          /\ calm.combo.sent = FALSE /\ calm.combo.window = e.combo.window
      BY <1>9 DEF Whole
    <2> HIDE DEF calm
    <2>4. Sound(calm)
      BY <1>9, <2>1, <2>2, SameTaken DEF Sound
    <2>5. Kept(f) => Kept(calm)
      BY <1>8, <2>2, <2>3 DEF Kept, Holding
    <2>6. ComboSide(calm, f)
      BY <1>8, <2>2, <2>4 DEF ComboSide
    <2> QED
      BY <1>8, <2>2, <2>3, <2>4, <2>5, <2>6
  <1>12. /\ Sound(quiet) /\ (Kept(f) => Kept(quiet)) /\ ComboSide(quiet, f) /\ ~quiet.combo.request
         /\ quiet.combo.sent = e.combo.sent /\ quiet.zero = f.zero
         /\ quiet.combo.window = window
    <2>1. Whole(quiet)
      BY <1>9 DEF Whole
    <2>2. /\ quiet.pool = e.pool /\ quiet.wave = e.wave /\ quiet.ground = e.ground
          /\ quiet.act = e.act /\ quiet.swing = e.swing /\ quiet.obs = e.obs /\ quiet.zero = e.zero
          /\ quiet.latch = e.latch /\ quiet.seen = e.seen /\ quiet.count = e.count
      BY <1>9 DEF Whole
    <2>3. /\ quiet.combo.reserved = e.combo.reserved /\ quiet.combo.request = FALSE
          /\ quiet.combo.sent = e.combo.sent /\ quiet.combo.window = e.combo.window
      BY <1>9 DEF Whole
    <2> HIDE DEF quiet
    <2>4. Sound(quiet)
      BY <1>9, <2>1, <2>2, SameTaken DEF Sound
    <2>5. Kept(f) => Kept(quiet)
      BY <1>8, <2>2, <2>3 DEF Kept, Holding
    <2>6. ComboSide(quiet, f)
      BY <1>8, <2>2, <2>4 DEF ComboSide
    <2> QED
      BY <1>8, <2>2, <2>3, <2>4, <2>5, <2>6
  <1>13. h = IF e.combo.sent
             THEN IF e.zero.slash = 1 THEN calm
                  ELSE IF e.zero.slash = 0 THEN ReleaseReservation(calm) ELSE e
             ELSE IF e.combo.request THEN ReleaseReservation(quiet) ELSE e
    BY <1>1, Zenon DEF Resolve
  <1> HIDE DEF calm, quiet
  <1>14. CASE e.combo.sent /\ e.zero.slash = 1
    <2>1. h = calm /\ ~f.combo.request /\ f.zero.slash = 1
      BY <1>8, <1>13, <1>14 DEF ComboSide
    <2>2. Asked(f) /\ e.combo.reserved # None => ~special
      BY <1>8, <2>1 DEF Asked
    <2> QED
      BY <1>8, <1>10, <1>11, <2>1, <2>2 DEF h, window
  <1>15. ASSUME NEW k \in {calm, quiet}, h = ReleaseReservation(k),
                ~k.combo.sent, ~k.combo.request, Sound(k), Kept(f) => Kept(k), ComboSide(k, f),
                k.combo.window = window
         PROVE  /\ ComboSide(h, f) /\ (Kept(f) => Kept(h))
                /\ ~h.combo.request /\ ~h.combo.sent
                /\ h.combo.reserved = None /\ h.combo.window = window
    <2>1. /\ ComboSide(h, k) /\ (Kept(k) => Kept(h)) /\ h.combo.reserved = None
          /\ h.combo.request = k.combo.request /\ h.combo.sent = k.combo.sent
          /\ h.combo.window = k.combo.window
      BY <1>15, ReleaseReservationSide
    <2> QED
      BY <1>15, <2>1, ComboTwice
  <1>16. CASE e.combo.sent /\ e.zero.slash # 1
    <2>1. ~f.combo.request /\ f.zero.slash = 0 /\ e.zero.slash = 0
      BY <1>8, <1>16
    <2>2. h = ReleaseReservation(calm)
      BY <1>13, <1>16, <2>1
    <2> QED
      BY <1>8, <1>11, <1>15, <2>1, <2>2 DEF h, window
  <1>17. CASE ~e.combo.sent /\ e.combo.request
    <2>1. h = ReleaseReservation(quiet)
      BY <1>13, <1>17
    <2> QED
      BY <1>12, <1>15, <1>17, <2>1 DEF h, window
  <1>18. CASE ~e.combo.sent /\ ~e.combo.request
    <2>1. h = e /\ ~f.combo.sent /\ ~f.combo.request
      BY <1>8, <1>13, <1>18
    <2>2. Asked(f) /\ e.combo.reserved # None => f.zero.slash \in 1 .. SlashWave - 1 /\ ~special
      BY <1>8, <2>1, SaberAssumption DEF Asked
    <2> QED
      BY <1>8, <1>18, <2>1, <2>2 DEF h, window
  <1> QED
    BY <1>14, <1>16, <1>17, <1>18

-----------------------------------------------------------------------------
(* Zero's buster and finisher *)

\* They touch the slots of Zero's shots, and leave those of Saber alone; the
\* body may be made to stand where it stands on the ground.
ZeroSide(h, f) ==
    /\ Sound(h)
    /\ h.swing = f.swing /\ h.obs = f.obs /\ h.ground = f.ground
    /\ h.latch = f.latch /\ h.seen = f.seen
    /\ h.combo.window = f.combo.window /\ h.combo.reserved = f.combo.reserved
    /\ h.combo.pre = f.combo.pre
    /\ h.act = f.act \/ (Grounded(f.act) /\ h.act = "stand")
    /\ \A d \in Slots :
          /\ h.pool[d] = f.pool[d] \/ {h.pool[d], f.pool[d]} \subseteq {"free", "slash", "burst"}
          /\ h.pool[d] \in {"held", "wave"} => h.wave[d] = f.wave[d]

\* The buster alone: no finisher starts or ends.
BusterSide(h, f) ==
    ZeroSide(h, f) /\ h.combo = f.combo /\ h.zero.slash = f.zero.slash

LEMMA ZeroItself == ASSUME NEW f, Sound(f) PROVE BusterSide(f, f)
  BY DEF ZeroSide, BusterSide

LEMMA ZeroTwice ==
    ASSUME NEW f, NEW g, NEW h, ZeroSide(g, f), ZeroSide(h, g)
    PROVE  ZeroSide(h, f)
  <1>1. h.act = f.act \/ (Grounded(f.act) /\ h.act = "stand")
    BY DEF ZeroSide
  <1> QED
    BY <1>1 DEF ZeroSide

LEMMA BusterTwice ==
    ASSUME NEW f, NEW g, NEW h, BusterSide(g, f), BusterSide(h, g)
    PROVE  BusterSide(h, f)
  BY ZeroTwice DEF BusterSide

LEMMA ZeroKept ==
    ASSUME NEW f, NEW h, ZeroSide(h, f)
    PROVE  /\ Kept(f) => Kept(h)
           /\ WavesHere(f) => WavesHere(h)
           /\ Boxed(f) => Boxed(h)
  <1>1. \A t \in {"held", "wave", "swing"} : Holding(h, {t}) = Holding(f, {t})
    BY DEF ZeroSide, Holding
  <1> QED
    BY <1>1 DEF ZeroSide, Kept, WavesHere, Boxed, Holding

LEMMA ZeroCancelSide ==
    ASSUME NEW f, Sound(f)
    PROVE  LET h == ZeroCancel(f)
           IN  ZeroSide(h, f) /\ h.combo = f.combo /\ h.zero = NoZero /\ h.act = f.act
  <1> DEFINE d == f.zero.slot
             e == IF d # None /\ f.pool[d] = "slash" THEN Emptied(f, {d}) ELSE f
             h == ZeroCancel(f)
  <1>1. /\ Sound(e) /\ Same(e, f)
        /\ \A c \in Slots : /\ e.pool[c] = f.pool[c] \/ (f.pool[c] = "slash" /\ e.pool[c] = "free")
                            /\ f.pool[c] # "slash" => e.wave[c] = f.wave[c]
    <2>0. d \in Slots \cup {None}
      BY DEF Sound, Whole
    <2>1. CASE d # None /\ f.pool[d] = "slash"
      <3>1. d \in Slots /\ {d} \in SUBSET Slots
        BY <2>0, <2>1
      <3>2. e = Emptied(f, {d})
        BY <2>1
      <3> HIDE DEF d, e
      <3> QED
        BY <2>1, <3>1, <3>2, EmptiedSound
    <2>2. CASE ~(d # None /\ f.pool[d] = "slash")
      BY <2>2 DEF Same
    <2> QED
      BY <2>1, <2>2
  <1>2. h = [e EXCEPT !.zero = NoZero]
    BY DEF ZeroCancel
  <1> HIDE DEF e, h
  <1>3. Whole(e)
    BY <1>1 DEF Sound
  <1>4. Whole(h)
    BY <1>2, <1>3 DEF Whole, NoZero
  <1>5. /\ h.pool = e.pool /\ h.wave = e.wave /\ h.ground = e.ground /\ h.act = e.act
        /\ h.swing = e.swing /\ h.obs = e.obs /\ h.combo = e.combo /\ h.latch = e.latch
        /\ h.seen = e.seen /\ h.count = e.count /\ h.zero = NoZero
    BY <1>2, <1>3 DEF Whole
  <1>6. Sound(h)
    BY <1>1, <1>4, <1>5, SameTaken DEF Sound
  <1> QED
    BY <1>1, <1>5, <1>6 DEF ZeroSide, Same, h

LEMMA StartSlashSide ==
    ASSUME NEW f, Sound(f)
    PROVE  LET h == StartSlash(f)
           IN  /\ ZeroSide(h, f) /\ h.combo = f.combo /\ h.act = f.act
               /\ h.zero.charge = f.zero.charge /\ h.zero.burst = f.zero.burst
               /\ \/ h.zero.slash = f.zero.slash /\ h.zero.combo = f.zero.combo
                  \/ h.zero.slash = 1 /\ ~h.zero.combo
  <1> DEFINE d == First(Holding(f, {"free"}))
             e == Filled(f, d, "slash", NoWave)
             h == StartSlash(f)
  <1>1. CASE Holding(f, {"free"}) = {}
    BY <1>1, ZeroItself DEF StartSlash, BusterSide
  <1>2. CASE Holding(f, {"free"}) # {}
    <2>1. d \in Slots /\ f.pool[d] = "free"
      BY <1>2, FirstHeld
    <2>2. h = [e EXCEPT !.zero.combo = FALSE, !.zero.slash = 1, !.zero.slot = d]
      BY <1>2 DEF StartSlash
    <2> HIDE DEF d
    <2>3. /\ Sound(e) /\ Same(e, f)
          /\ \A c \in Slots : /\ e.pool[c] = IF c = d THEN "slash" ELSE f.pool[c]
                              /\ e.wave[c] = IF c = d THEN NoWave ELSE f.wave[c]
      BY <2>1, FilledSound DEF Live, Things, NoWave
    <2> HIDE DEF e, h
    <2>4. Whole(e)
      BY <2>3 DEF Sound
    <2>5. Whole(h)
      BY <2>1, <2>2, <2>4 DEF Whole
    <2>6. /\ h.pool = e.pool /\ h.wave = e.wave /\ h.ground = e.ground /\ h.act = e.act
          /\ h.swing = e.swing /\ h.obs = e.obs /\ h.combo = e.combo /\ h.latch = e.latch
          /\ h.seen = e.seen /\ h.count = e.count
      BY <2>2, <2>4 DEF Whole
    <2>7. /\ h.zero.slash = 1 /\ h.zero.combo = FALSE /\ h.zero.charge = e.zero.charge
          /\ h.zero.burst = e.zero.burst
      BY <2>2, <2>4 DEF Whole
    <2>8. Sound(h)
      BY <2>3, <2>5, <2>6, SameTaken DEF Sound
    <2> QED
      BY <2>1, <2>3, <2>6, <2>7, <2>8 DEF ZeroSide, Same, h
  <1> QED
    BY <1>1, <1>2

LEMMA StartBurstSide ==
    ASSUME NEW f, Sound(f), NEW which
    PROVE  LET h == StartBurst(f, which)
           IN  /\ BusterSide(h, f) /\ h.act = f.act /\ h.zero.burst = which
               /\ h.zero.charge = f.zero.charge /\ h.zero.combo = f.zero.combo
  <1> DEFINE h == StartBurst(f, which)
  <1>1. Whole(f)
    BY DEF Sound
  <1>2. h = [f EXCEPT !.zero.burst = which, !.zero.fired = FALSE, !.zero.over = FALSE]
    BY DEF StartBurst
  <1> HIDE DEF h
  <1>3. Whole(h)
    BY <1>1, <1>2 DEF Whole
  <1>4. /\ h.pool = f.pool /\ h.wave = f.wave /\ h.ground = f.ground /\ h.act = f.act
        /\ h.swing = f.swing /\ h.obs = f.obs /\ h.combo = f.combo /\ h.latch = f.latch
        /\ h.seen = f.seen /\ h.count = f.count
    BY <1>1, <1>2 DEF Whole
  <1>5. /\ h.zero.slash = f.zero.slash /\ h.zero.combo = f.zero.combo
        /\ h.zero.charge = f.zero.charge /\ h.zero.burst = which
    BY <1>1, <1>2 DEF Whole
  <1>6. Sound(h)
    BY <1>3, <1>4, SameTaken DEF Sound
  <1> QED
    BY <1>4, <1>5, <1>6 DEF ZeroSide, BusterSide, h

\* What the animation makes of a burst, and the ground of the body, change
\* neither the charge nor what the buster is at.
Unhurried(h, f) ==
    /\ BusterSide(h, f)
    /\ h.zero.charge = f.zero.charge /\ h.zero.combo = f.zero.combo
    /\ h.zero.burst = f.zero.burst

LEMMA EmitBurstSide == ASSUME NEW f, Sound(f) PROVE Unhurried(EmitBurst(f), f)
  <1> DEFINE d == First(Holding(f, {"free"}))
             e == Filled(f, d, "burst", NoWave)
             shots == f.zero.shots \cup {d}
             h == EmitBurst(f)
  <1>1. CASE Holding(f, {"free"}) = {}
    BY <1>1, ZeroItself DEF EmitBurst, Unhurried
  <1>2. CASE Holding(f, {"free"}) # {}
    <2>1. d \in Slots /\ f.pool[d] = "free"
      BY <1>2, FirstHeld
    <2>3. /\ Sound(e) /\ Same(e, f)
          /\ \A c \in Slots : /\ e.pool[c] = IF c = d THEN "burst" ELSE f.pool[c]
                              /\ e.wave[c] = IF c = d THEN NoWave ELSE f.wave[c]
      <3> HIDE DEF d
      <3> QED
        BY <2>1, FilledSound DEF Live, Things, NoWave
    <2>2. h = [e EXCEPT !.zero.shots = @ \cup {d}]
      BY <1>2 DEF EmitBurst
    <2> HIDE DEF d, e, h
    <2>4. Whole(e)
      BY <2>3 DEF Sound
    <2>5. Whole(h)
      BY <2>2, <2>4 DEF Whole
    <2>6. /\ h.pool = e.pool /\ h.wave = e.wave /\ h.ground = e.ground /\ h.act = e.act
          /\ h.swing = e.swing /\ h.obs = e.obs /\ h.combo = e.combo /\ h.latch = e.latch
          /\ h.seen = e.seen /\ h.count = e.count
      BY <2>2, <2>4 DEF Whole
    <2>7. /\ h.zero.slash = e.zero.slash /\ h.zero.combo = e.zero.combo
          /\ h.zero.charge = e.zero.charge /\ h.zero.burst = e.zero.burst
      BY <2>2, <2>4 DEF Whole
    <2>8. Sound(h)
      BY <2>3, <2>5, <2>6, SameTaken DEF Sound
    <2> QED
      BY <2>1, <2>3, <2>6, <2>7, <2>8 DEF ZeroSide, BusterSide, Unhurried, Same, h
  <1> QED
    BY <1>1, <1>2

LEMMA UnhurriedTwice ==
    ASSUME NEW f, NEW g, NEW h, Unhurried(g, f), Unhurried(h, g)
    PROVE  Unhurried(h, f)
  BY BusterTwice DEF Unhurried

LEMMA AdvanceBurstSide ==
    ASSUME NEW f, Sound(f), NEW due
    PROVE  Unhurried(AdvanceBurst(f, due), f)
  <1> DEFINE h == AdvanceBurst(f, due)
             over(k) == [k EXCEPT !.zero.over = TRUE]
             fired(k) == [k EXCEPT !.zero.fired = TRUE]
  <1>1. h \in {f, over(f), fired(EmitBurst(f))}
    BY Zenon DEF AdvanceBurst
  <1>2. ASSUME NEW k, Sound(k), NEW m \in {over(k), fired(k)}
        PROVE  Unhurried(m, k)
    <2>1. Whole(k)
      BY <1>2 DEF Sound
    <2>2. Whole(m)
      BY <1>2, <2>1 DEF Whole
    <2>3. /\ m.pool = k.pool /\ m.wave = k.wave /\ m.ground = k.ground /\ m.act = k.act
          /\ m.swing = k.swing /\ m.obs = k.obs /\ m.combo = k.combo /\ m.latch = k.latch
          /\ m.seen = k.seen /\ m.count = k.count
      BY <1>2, <2>1 DEF Whole
    <2>4. /\ m.zero.slash = k.zero.slash /\ m.zero.combo = k.zero.combo
          /\ m.zero.charge = k.zero.charge /\ m.zero.burst = k.zero.burst
      BY <1>2, <2>1 DEF Whole
    <2>5. Sound(m)
      BY <1>2, <2>2, <2>3, SameTaken DEF Sound
    <2> QED
      BY <2>3, <2>4, <2>5 DEF ZeroSide, BusterSide, Unhurried
  <1> HIDE DEF h
  <1>3. CASE h = f
    BY <1>3, ZeroItself DEF Unhurried, h
  <1>4. CASE h = over(f)
    BY <1>2, <1>4 DEF h
  <1>5. CASE h = fired(EmitBurst(f))
    <2>1. Unhurried(EmitBurst(f), f) /\ Sound(EmitBurst(f))
      BY EmitBurstSide DEF Unhurried, BusterSide, ZeroSide
    <2>2. Unhurried(h, EmitBurst(f))
      BY <1>2, <1>5, <2>1
    <2> QED
      BY <2>1, <2>2, UnhurriedTwice DEF h
  <1> QED
    BY <1>1, <1>3, <1>4, <1>5

LEMMA PlantedSide == ASSUME NEW f, Sound(f) PROVE Unhurried(Planted(f), f)
  <1> DEFINE m == [f EXCEPT !.act = "stand"]
             h == Planted(f)
  <1>1. h = f \/ (Grounded(f.act) /\ h = m)
    BY DEF Planted
  <1>2. Whole(f)
    BY DEF Sound
  <1>3. Whole(m)
    BY <1>2 DEF Whole, AllActions
  <1>4. /\ m.pool = f.pool /\ m.wave = f.wave /\ m.ground = f.ground /\ m.act = "stand"
        /\ m.swing = f.swing /\ m.obs = f.obs /\ m.combo = f.combo /\ m.latch = f.latch
        /\ m.seen = f.seen /\ m.count = f.count /\ m.zero = f.zero
    BY <1>2 DEF Whole
  <1> HIDE DEF m, h
  <1>5. Sound(m)
    BY <1>3, <1>4, SameTaken DEF Sound
  <1>6. Grounded(f.act) => Unhurried(m, f)
    BY <1>4, <1>5 DEF ZeroSide, BusterSide, Unhurried
  <1>7. Unhurried(f, f)
    BY ZeroItself DEF Unhurried
  <1> QED
    BY <1>1, <1>6, <1>7 DEF h

\* The charge grows or stays while fire is held, and is let go, with a burst
\* if it is full.
Charged(h, f, intent) ==
    /\ BusterSide(h, f) /\ h.act = f.act
    /\ \/ /\ h.zero.combo = f.zero.combo /\ h.zero.burst = f.zero.burst
          /\ \/ intent.held /\ h.zero.charge \in {f.zero.charge, f.zero.charge + 1}
             \/ ~intent.held /\ ~intent.released /\ h.zero.charge = f.zero.charge
             \/ h.zero.charge = 0
       \/ /\ ~intent.held /\ intent.released /\ f.zero.charge >= ChargeFull
          /\ h.zero.combo = TRUE /\ h.zero.burst = 1 /\ h.zero.charge = 0

LEMMA ChargeSide ==
    ASSUME NEW f, Sound(f), NEW intent, NEW ready
    PROVE  Charged(Charge(f, intent, ready), f, intent)
  <1> DEFINE h == Charge(f, intent, ready)
             more == IF f.zero.charge < ChargeCap THEN f.zero.charge + 1 ELSE f.zero.charge
             Left(k, c) == [k EXCEPT !.zero.charge = c]
             b == StartBurst(f, 1)
             fired == [b EXCEPT !.zero.combo = TRUE, !.zero.charge = 0]
  <1>1. \/ intent.held /\ h = Left(f, more)
        \/ ~intent.held /\ ~intent.released /\ h = f
        \/ ~intent.held /\ intent.released /\ h = Left(f, 0)
        \/ ~intent.held /\ intent.released /\ f.zero.charge >= ChargeFull /\ h = fired
    <2>1. CASE intent.held
      <3>1. h = [f EXCEPT !.zero.charge = IF @ < ChargeCap THEN @ + 1 ELSE @]
        BY <2>1 DEF Charge
      <3>2. h = Left(f, more)
        BY <3>1
      <3> QED
        BY <2>1, <3>2
    <2>2. CASE ~intent.held
      BY <2>2 DEF Charge
    <2> QED
      BY <2>1, <2>2
  <1>2. more \in {f.zero.charge, f.zero.charge + 1}
    OBVIOUS
  <1> HIDE DEF h, more
  <1>3. Whole(f)
    BY DEF Sound
  <1>4. ASSUME NEW c
        PROVE  LET m == Left(f, c)
               IN  /\ BusterSide(m, f) /\ m.act = f.act /\ m.zero.charge = c
                   /\ m.zero.combo = f.zero.combo /\ m.zero.burst = f.zero.burst
    <2> DEFINE m == Left(f, c)
    <2>2. Whole(m)
      BY <1>3 DEF Whole
    <2>3. /\ m.pool = f.pool /\ m.wave = f.wave /\ m.ground = f.ground /\ m.act = f.act
          /\ m.swing = f.swing /\ m.obs = f.obs /\ m.combo = f.combo /\ m.latch = f.latch
          /\ m.seen = f.seen /\ m.count = f.count
      BY <1>3 DEF Whole
    <2>4. /\ m.zero.slash = f.zero.slash /\ m.zero.combo = f.zero.combo
          /\ m.zero.charge = c /\ m.zero.burst = f.zero.burst
      BY <1>3 DEF Whole
    <2>5. Sound(m)
      BY <2>2, <2>3, SameTaken DEF Sound
    <2> QED
      BY <2>3, <2>4, <2>5 DEF ZeroSide, BusterSide
  <1>5. /\ BusterSide(fired, f) /\ fired.act = f.act
        /\ fired.zero.combo = TRUE /\ fired.zero.burst = 1 /\ fired.zero.charge = 0
    <2>1. BusterSide(b, f) /\ b.act = f.act /\ b.zero.burst = 1
      BY StartBurstSide
    <2>2. Whole(b)
      BY <2>1 DEF BusterSide, ZeroSide, Sound
    <2> HIDE DEF b
    <2>3. Whole(fired)
      BY <2>2 DEF Whole
    <2>4. /\ fired.pool = b.pool /\ fired.wave = b.wave /\ fired.ground = b.ground
          /\ fired.act = b.act /\ fired.swing = b.swing /\ fired.obs = b.obs
          /\ fired.combo = b.combo /\ fired.latch = b.latch
          /\ fired.seen = b.seen /\ fired.count = b.count
      BY <2>2 DEF Whole
    <2>5. /\ fired.zero.slash = b.zero.slash /\ fired.zero.combo = TRUE
          /\ fired.zero.charge = 0 /\ fired.zero.burst = b.zero.burst
      BY <2>2 DEF Whole
    <2>6. Sound(fired)
      BY <2>1, <2>3, <2>4, SameTaken DEF BusterSide, ZeroSide, Sound
    <2> HIDE DEF fired
    <2>7. BusterSide(fired, b)
      BY <2>4, <2>5, <2>6 DEF ZeroSide, BusterSide
    <2>8. BusterSide(fired, f)
      BY <2>1, <2>7, BusterTwice
    <2> QED
      BY <2>1, <2>4, <2>5, <2>8
  <1> HIDE DEF fired, b, Left
  <1>6. CASE intent.held /\ h = Left(f, more)
    BY <1>2, <1>4, <1>6 DEF h, Charged
  <1>7. CASE ~intent.held /\ ~intent.released /\ h = f
    BY <1>7, ZeroItself DEF h, Charged
  <1>8. CASE h = Left(f, 0)
    BY <1>4, <1>8 DEF h, Charged
  <1>9. CASE ~intent.held /\ intent.released /\ f.zero.charge >= ChargeFull /\ h = fired
    BY <1>5, <1>9 DEF h, Charged
  <1> QED
    BY <1>1, <1>6, <1>7, <1>8, <1>9

\* A press fires the second burst after the first; else the charge is filled,
\* kept or let go.
Attacked(h, f, intent) ==
    \/ /\ BusterSide(h, f) /\ h.act = f.act
       /\ h.zero.combo = f.zero.combo /\ h.zero.burst = f.zero.burst
       /\ h.zero.charge = f.zero.charge
       /\ f.zero.burst # 0 \/ f.zero.combo
    \/ f.zero.burst = 0 /\ ~f.zero.combo /\ Charged(h, f, intent)
    \/ /\ BusterSide(h, f) /\ h.act = f.act
       /\ f.zero.burst = 0 /\ f.zero.combo /\ intent.pressed
       /\ h.zero.combo = FALSE /\ h.zero.burst = 2 /\ h.zero.charge = f.zero.charge

LEMMA AttackSide ==
    ASSUME NEW f, Sound(f), NEW intent, NEW ready
    PROVE  Attacked(Attack(f, intent, ready), f, intent)
  <1> DEFINE h == Attack(f, intent, ready)
             b == StartBurst(f, 2)
             fired == [b EXCEPT !.zero.combo = FALSE]
  <1>1. \/ f.zero.burst = 0 /\ f.zero.combo /\ intent.pressed /\ h = fired
        \/ f.zero.burst = 0 /\ ~f.zero.combo /\ h = Charge(f, intent, ready)
        \/ (f.zero.burst # 0 \/ f.zero.combo) /\ h = f
    BY DEF Attack
  <1>2. /\ BusterSide(fired, f) /\ fired.act = f.act
        /\ fired.zero.combo = FALSE /\ fired.zero.burst = 2 /\ fired.zero.charge = f.zero.charge
    <2>1. /\ BusterSide(b, f) /\ b.act = f.act /\ b.zero.burst = 2
          /\ b.zero.charge = f.zero.charge
      BY StartBurstSide
    <2>2. Whole(b)
      BY <2>1 DEF BusterSide, ZeroSide, Sound
    <2> HIDE DEF b
    <2>3. Whole(fired)
      BY <2>2 DEF Whole
    <2>4. /\ fired.pool = b.pool /\ fired.wave = b.wave /\ fired.ground = b.ground
          /\ fired.act = b.act /\ fired.swing = b.swing /\ fired.obs = b.obs
          /\ fired.combo = b.combo /\ fired.latch = b.latch
          /\ fired.seen = b.seen /\ fired.count = b.count
      BY <2>2 DEF Whole
    <2>5. /\ fired.zero.slash = b.zero.slash /\ fired.zero.combo = FALSE
          /\ fired.zero.charge = b.zero.charge /\ fired.zero.burst = b.zero.burst
      BY <2>2 DEF Whole
    <2>6. Sound(fired)
      BY <2>1, <2>3, <2>4, SameTaken DEF BusterSide, ZeroSide, Sound
    <2> HIDE DEF fired
    <2>7. BusterSide(fired, b)
      BY <2>4, <2>5, <2>6 DEF ZeroSide, BusterSide
    <2>8. BusterSide(fired, f)
      BY <2>1, <2>7, BusterTwice
    <2> QED
      BY <2>1, <2>4, <2>5, <2>8
  <1> HIDE DEF fired, b, h
  <1>3. CASE f.zero.burst = 0 /\ f.zero.combo /\ intent.pressed /\ h = fired
    BY <1>2, <1>3 DEF h, Attacked
  <1>4. CASE f.zero.burst = 0 /\ ~f.zero.combo /\ h = Charge(f, intent, ready)
    BY <1>4, ChargeSide, Zenon DEF h, Attacked
  <1>5. CASE (f.zero.burst # 0 \/ f.zero.combo) /\ h = f
    BY <1>5, ZeroItself DEF h, Attacked
  <1> QED
    BY <1>1, <1>3, <1>4, <1>5

\* A requested finisher starts, or is dropped for want of a slot.
Tracks(h, f) ==
    /\ ZeroSide(h, f) /\ h.act = f.act
    /\ h.zero.charge = f.zero.charge /\ h.zero.burst \in {f.zero.burst, 0}
    /\ \/ /\ ~Requested(f) /\ h.combo = f.combo
          /\ h.zero.slash = f.zero.slash /\ h.zero.combo = f.zero.combo
       \/ /\ Requested(f) /\ ~h.combo.request /\ h.combo.sent
          /\ \/ h.zero.slash = f.zero.slash /\ h.zero.combo = f.zero.combo
             \/ h.zero.slash = 1 /\ ~h.zero.combo

LEMMA TrackedSide == ASSUME NEW f, Sound(f) PROVE Tracks(Tracked(f), f)
  <1> DEFINE h == Tracked(f)
             shots == LiveBurst(f)
             burst == IF f.zero.over \/ Requested(f) THEN 0 ELSE f.zero.burst
             g == [f EXCEPT !.zero.shots = shots, !.zero.over = FALSE, !.zero.burst = burst]
             e == [g EXCEPT !.combo.request = FALSE, !.combo.sent = TRUE]
  <1>1. h = IF Requested(f) THEN StartSlash(e) ELSE g
    BY DEF Tracked
  <1>2. burst \in {f.zero.burst, 0}
    OBVIOUS
  <1> HIDE DEF h, shots, burst
  <1>3. Whole(f)
    BY DEF Sound
  <1>4. /\ g.pool = f.pool /\ g.wave = f.wave /\ g.ground = f.ground /\ g.act = f.act
        /\ g.swing = f.swing /\ g.obs = f.obs /\ g.combo = f.combo /\ g.latch = f.latch
        /\ g.seen = f.seen /\ g.count = f.count
    BY <1>3 DEF Whole
  <1>5. /\ g.zero.slash = f.zero.slash /\ g.zero.combo = f.zero.combo
        /\ g.zero.charge = f.zero.charge /\ g.zero.burst = burst
    BY <1>3 DEF Whole
  <1>6. Whole(g)
    BY <1>3 DEF Whole
  <1> HIDE DEF g
  <1>7. Sound(g) /\ ZeroSide(g, f)
    BY <1>4, <1>6, SameTaken DEF Sound, ZeroSide
  <1>8. /\ e.pool = g.pool /\ e.wave = g.wave /\ e.ground = g.ground /\ e.act = g.act
        /\ e.swing = g.swing /\ e.obs = g.obs /\ e.zero = g.zero /\ e.latch = g.latch
        /\ e.seen = g.seen /\ e.count = g.count
    BY <1>6 DEF Whole
  <1>9. /\ e.combo.window = g.combo.window /\ e.combo.reserved = g.combo.reserved
        /\ e.combo.pre = g.combo.pre /\ e.combo.request = FALSE /\ e.combo.sent = TRUE
    BY <1>6 DEF Whole
  <1>10. Whole(e)
    BY <1>6 DEF Whole
  <1> HIDE DEF e
  <1>11. Sound(e)
    BY <1>7, <1>8, <1>10, SameTaken DEF Sound
  <1>12. ZeroSide(e, g)
    BY <1>8, <1>9, <1>11 DEF ZeroSide
  <1>13. CASE ~Requested(f)
    BY <1>1, <1>2, <1>4, <1>5, <1>7, <1>13 DEF h, Tracks
  <1>14. CASE Requested(f)
    <2>1. h = StartSlash(e)
      BY <1>1, <1>14
    <2>2. /\ ZeroSide(h, e) /\ h.combo = e.combo /\ h.act = e.act
          /\ h.zero.charge = e.zero.charge /\ h.zero.burst = e.zero.burst
          /\ \/ h.zero.slash = e.zero.slash /\ h.zero.combo = e.zero.combo
             \/ h.zero.slash = 1 /\ ~h.zero.combo
      BY <1>11, <2>1, StartSlashSide
    <2>3. ZeroSide(h, f)
      BY <1>7, <1>12, <2>2, ZeroTwice
    <2> QED
      BY <1>2, <1>4, <1>5, <1>8, <1>9, <1>14, <2>2, <2>3 DEF h, Tracks
  <1> QED
    BY <1>13, <1>14

\* The tick of Zero: nothing for a body that is hit and keeps its charge, the
\* end of everything, one more tick of the finisher, or of the buster.
Cancels(h, f) ==
    /\ ZeroSide(h, f) /\ h.zero = NoZero /\ h.combo = f.combo /\ h.act = f.act
    /\ \/ f.act \notin Playable \cup {"shut"} \/ special
       \/ f.zero.slash # 0 /\ f.zero.slash + 1 > SlashEnd
GoesOn(h, f) ==
    /\ ZeroSide(h, f) /\ h.combo = f.combo
    /\ f.act \in Playable \cup {"shut"} /\ f.zero.slash # 0 /\ h.zero.slash = f.zero.slash + 1
    /\ h.zero.charge = f.zero.charge /\ h.zero.combo = f.zero.combo
    /\ h.zero.burst \in {f.zero.burst, 0}
Fires(h, f, intent) ==
    /\ f.zero.slash = 0 /\ f.act \in Playable \cup {"shut"} /\ ~special
    /\ \E g, a : Tracks(g, f) /\ Attacked(a, g, intent) /\ Unhurried(h, a)

LEMMA ZeroTickSide ==
    ASSUME NEW f, Sound(f), NEW intent, NEW ready, NEW due
    PROVE  LET h == ZeroTick(f, intent, ready, due)
           IN  \/ KeepsCharge(f) /\ h = f
               \/ Cancels(h, f)
               \/ GoesOn(h, f)
               \/ Fires(h, f, intent)
  <1> DEFINE h == ZeroTick(f, intent, ready, due)
             g == Tracked(f)
             aged == [g EXCEPT !.zero.slash = @ + 1]
             a == Attack(g, intent, ready)
             End(k) == Planted(AdvanceBurst(k, due))
  <1>1. \/ KeepsCharge(f) /\ h = f
        \/ (f.act \notin Playable \cup {"shut"} \/ special) /\ h = ZeroCancel(f)
        \/ /\ f.act \in Playable \cup {"shut"} /\ ~special
           /\ \/ f.zero.slash = 0 /\ h = End(a)
              \/ f.zero.slash # 0 /\ aged.zero.slash > SlashEnd /\ h = ZeroCancel(g)
              \/ f.zero.slash # 0 /\ h = End(aged)
    BY DEF ZeroTick
  <1>2. Tracks(g, f)
    BY TrackedSide
  <1>3. Sound(g) /\ Whole(g)
    BY <1>2 DEF Tracks, ZeroSide, Sound
  <1>4. Attacked(a, g, intent)
    BY <1>3, AttackSide
  <1> HIDE DEF g, a, h
  <1>5. ASSUME NEW k, Sound(k) PROVE Unhurried(End(k), k)
    <2>1. Unhurried(AdvanceBurst(k, due), k)
      BY <1>5, AdvanceBurstSide
    <2>2. Sound(AdvanceBurst(k, due))
      BY <2>1 DEF Unhurried, BusterSide, ZeroSide
    <2>3. Unhurried(Planted(AdvanceBurst(k, due)), AdvanceBurst(k, due))
      BY <2>2, PlantedSide
    <2> QED
      BY <2>1, <2>3, UnhurriedTwice
  <1>6. /\ Sound(aged) /\ aged.zero.slash = g.zero.slash + 1 /\ aged.combo = g.combo
        /\ aged.zero.charge = g.zero.charge /\ aged.zero.combo = g.zero.combo
        /\ aged.zero.burst = g.zero.burst /\ ZeroSide(aged, g)
    <2>1. /\ aged.pool = g.pool /\ aged.wave = g.wave /\ aged.ground = g.ground
          /\ aged.act = g.act /\ aged.swing = g.swing /\ aged.obs = g.obs
          /\ aged.combo = g.combo /\ aged.latch = g.latch
          /\ aged.seen = g.seen /\ aged.count = g.count
      BY <1>3 DEF Whole
    <2>2. /\ aged.zero.slash = g.zero.slash + 1 /\ aged.zero.combo = g.zero.combo
          /\ aged.zero.charge = g.zero.charge /\ aged.zero.burst = g.zero.burst
      BY <1>3 DEF Whole
    <2>3. Whole(aged)
      BY <1>3 DEF Whole
    <2>4. Sound(aged)
      BY <1>3, <2>1, <2>3, SameTaken DEF Sound
    <2> HIDE DEF aged
    <2> QED
      BY <2>1, <2>2, <2>4 DEF ZeroSide
  <1> HIDE DEF aged, End
  <1>7. f.zero.slash # 0 => g.combo = f.combo /\ g.zero.slash = f.zero.slash /\ g.zero.combo = f.zero.combo
    BY <1>2 DEF Tracks, Requested
  <1>8. CASE (f.act \notin Playable \cup {"shut"} \/ special) /\ h = ZeroCancel(f)
    BY <1>8, ZeroCancelSide DEF Cancels, h
  <1>9. CASE f.act \in Playable \cup {"shut"} /\ ~special /\ f.zero.slash = 0 /\ h = End(a)
    <2>1. Sound(a)
      BY <1>4 DEF Attacked, Charged, BusterSide, ZeroSide
    <2>2. Unhurried(h, a)
      BY <1>5, <1>9, <2>1
    <2> QED
      BY <1>2, <1>4, <1>9, <2>2 DEF Fires, h
  <1>10. CASE f.zero.slash # 0 /\ aged.zero.slash > SlashEnd /\ h = ZeroCancel(g)
    <2>1. ZeroSide(h, g) /\ h.combo = g.combo /\ h.zero = NoZero /\ h.act = g.act
      BY <1>3, <1>10, ZeroCancelSide
    <2>2. ZeroSide(h, f) /\ g.act = f.act
      BY <1>2, <2>1, ZeroTwice DEF Tracks
    <2> QED
      BY <1>6, <1>7, <1>10, <2>1, <2>2 DEF Cancels, h
  <1>11. CASE f.act \in Playable \cup {"shut"} /\ f.zero.slash # 0 /\ h = End(aged)
    <2>1. Unhurried(h, aged)
      BY <1>5, <1>6, <1>11
    <2>2. ZeroSide(h, aged)
      BY <2>1 DEF Unhurried, BusterSide
    <2>3. ZeroSide(aged, f)
      BY <1>2, <1>6, ZeroTwice DEF Tracks
    <2>4. ZeroSide(h, f)
      BY <2>2, <2>3, ZeroTwice
    <2>5. /\ h.combo = aged.combo /\ h.zero.slash = aged.zero.slash
          /\ h.zero.charge = aged.zero.charge /\ h.zero.combo = aged.zero.combo
          /\ h.zero.burst = aged.zero.burst
      BY <2>1 DEF Unhurried, BusterSide
    <2>6. g.zero.charge = f.zero.charge /\ g.zero.burst \in {f.zero.burst, 0}
      BY <1>2 DEF Tracks
    <2> QED
      BY <1>6, <1>7, <1>11, <2>4, <2>5, <2>6 DEF GoesOn, h
  <1> QED
    BY <1>1, <1>8, <1>9, <1>10, <1>11 DEF h

-----------------------------------------------------------------------------
(* The hook before the native player *)

LEMMA SwingKept ==
    ASSUME NEW f, NEW h, SwingSide(h, f)
    PROVE  (Kept(f) => Kept(h)) /\ (WavesHere(f) => WavesHere(h))
  <1>1. \A t \in {"held", "wave"} : Holding(h, {t}) = Holding(f, {t})
    BY DEF SwingSide, Holding
  <1> QED
    BY <1>1 DEF SwingSide, Kept, WavesHere, Holding

LEMMA ComboKept ==
    ASSUME NEW f, NEW h, ComboSide(h, f)
    PROVE  Holding(h, {"swing"}) = Holding(f, {"swing"}) /\ (Boxed(f) => Boxed(h))
  <1>1. Holding(h, {"swing"}) = Holding(f, {"swing"})
    BY DEF ComboSide, Holding
  <1> QED
    BY <1>1 DEF ComboSide, Boxed

LEMMA BoxedLoose == ASSUME NEW f, Boxed(f) PROVE Loose(f)
  BY DEF Boxed, Loose

LEMMA ResetAttackSide ==
    ASSUME NEW f, Sound(f)
    PROVE  LET h == ResetAttack(f)
           IN  /\ SwingSide(h, f) /\ h.swing = Idle /\ h.ground = Grounded(f.act)
               /\ Holding(h, {"swing"}) = {} /\ Boxed(h)
  <1> DEFINE e == Exit(f)
             h == ResetAttack(f)
  <1>1. h = [e EXCEPT !.ground = Grounded(f.act)]
    BY DEF ResetAttack
  <1>2. SwingSide(e, f) /\ e.swing = Idle /\ Holding(e, {"swing"}) = {} /\ Boxed(e)
    BY ExitSide
  <1> HIDE DEF e, h
  <1>3. Whole(e)
    BY <1>2 DEF SwingSide, Sound
  <1>4. Whole(h)
    BY <1>1, <1>3 DEF Whole
  <1>5. /\ h.pool = e.pool /\ h.wave = e.wave /\ h.act = e.act /\ h.swing = e.swing
        /\ h.combo = e.combo /\ h.zero = e.zero /\ h.latch = e.latch /\ h.seen = e.seen
        /\ h.count = e.count /\ h.ground = Grounded(f.act)
    BY <1>1, <1>3 DEF Whole
  <1>6. Sound(h)
    BY <1>2, <1>4, <1>5, SameTaken DEF SwingSide, Sound
  <1> QED
    BY <1>2, <1>5, <1>6 DEF SwingSide, Boxed, Holding, h

\* A swing that its body can go on with.
CanGoOn(f) ==
    /\ f.swing.kind # "none" /\ CanFire(f.act) /\ (f.swing.kind = "dash" => Grounded(f.act))
    /\ f.swing.tick + 1 < Timing[f.swing.kind].total

\* An air swing begins in the air; a swing that can go on does, and comes by
\* its slot.
LEMMA StepKind ==
    ASSUME NEW f, Sound(f), NEW pressed \in BOOLEAN
    PROVE  LET h == Step(f, pressed)
           IN  /\ h.swing.kind = "air" =>
                     CanFire(f.act) /\ (f.swing.kind = "air" \/ ~Grounded(f.act))
               /\ Boxed(f) /\ CanGoOn(f) =>
                     /\ h.swing.kind # "none" /\ h.pool = f.pool
                     /\ h.swing.slot # None /\ h.swing.own => CurrentTagged(h)
  <1> DEFINE h == Step(f, pressed)
             s == f.swing
             tick == s.tick + 1
             buffer == s.buffer \/ Buffers(s, tick, pressed)
             aged == [f EXCEPT !.swing.tick = tick, !.swing.buffer = buffer]
  <1>1. h = IF ~CanFire(f.act) THEN IF s # Idle THEN Exit(f) ELSE f
            ELSE IF s.kind = "none" THEN IF pressed THEN Start(f, OpeningKind(f.act)) ELSE f
            ELSE IF (s.kind = "dash" /\ ~Grounded(f.act)) \/ tick >= Timing[s.kind].total THEN Exit(f)
            ELSE IF Chains(s, tick, pressed) THEN Start(f, NextGround[s.kind])
            ELSE aged
    BY DEF Step
  <1>2. Whole(f)
    BY DEF Sound
  <1>3. Exit(f).swing.kind = "none" /\ Idle.kind = "none"
    BY ExitSide DEF Idle
  <1>4. \A kind : /\ Start(f, kind).swing.kind = kind /\ Start(f, kind).pool = f.pool
                  /\ Start(f, kind).swing.own = FALSE
    BY <1>2 DEF Start, Whole, Idle
  <1>5. /\ aged.swing.kind = s.kind /\ aged.pool = f.pool /\ aged.swing.own = s.own
        /\ aged.swing.slot = s.slot
    BY <1>2 DEF Whole
  <1>6. OpeningKind(f.act) = "air" => ~Grounded(f.act)
    BY DEF OpeningKind
  <1>7. Chains(s, tick, pressed) => NextGround[s.kind] \in {"ground2", "ground3"}
    BY DEF Chains, NextGround
  <1>8. Boxed(f) /\ s.slot # None /\ s.own => CurrentTagged(f)
    BY DEF Boxed, CurrentTagged, Holding
  <1> HIDE DEF h, aged, tick
  <1>9. h.swing.kind = "air" => CanFire(f.act) /\ (f.swing.kind = "air" \/ ~Grounded(f.act))
    BY <1>1, <1>3, <1>4, <1>5, <1>6, <1>7
  <1>10. ASSUME Boxed(f), CanGoOn(f)
         PROVE  /\ h.swing.kind # "none" /\ h.pool = f.pool
                /\ h.swing.slot # None /\ h.swing.own => CurrentTagged(h)
    <2>1. Timing[s.kind].total \in Nat /\ tick \in Nat
      BY <1>2, <1>10, SaberAssumption DEF Whole, CanGoOn, tick
    <2>2. ~(tick >= Timing[s.kind].total)
      BY <1>10, <2>1 DEF CanGoOn, tick
    <2>3. h = IF Chains(s, tick, pressed) THEN Start(f, NextGround[s.kind]) ELSE aged
      BY <1>1, <1>10, <2>2 DEF CanGoOn
    <2> QED
      BY <1>4, <1>5, <1>7, <1>8, <1>10, <2>3 DEF CanGoOn, CurrentTagged
  <1> QED
    BY <1>9, <1>10 DEF h

\* What the hook hands to Zero.
Prepared(h, f) ==
    /\ Sound(h) /\ h.act = f.act /\ h.zero = f.zero /\ ~h.combo.sent
    /\ Boxed(f) => Boxed(h)
    /\ Kept(f) /\ WavesHere(f) /\ Waits(f) =>
          /\ Kept(h)
          /\ h.combo.reserved # None =>
                \/ h.combo.request
                \/ f.zero.slash \in 1 .. SlashWave - 1 /\ f.act \in Playable /\ ~special
    /\ h.combo.request => FrameContext(f.act) /\ f.combo.window > 0 /\ f.zero.slash = 0
    /\ h.combo.window \in {0, Less(f.combo.window, 1)}
    /\ ~FrameContext(f.act) => h.combo = NoCombo /\ h.swing = Idle /\ h.latch = FALSE
    /\ FrameContext(f.act) =>
          h.latch = f.latch /\ h.ground = f.ground /\ h.combo.pre.burst = f.zero.burst
    /\ h.swing.kind = "air" =>
          FrameContext(f.act) /\ CanFire(f.act) /\ (f.swing.kind = "air" \/ ~Grounded(f.act))
    /\ Boxed(f) /\ CanGoOn(f) /\ Holding(f, {"free", "swing"}) # {} => h.swing.kind # "none"

LEMMA PrePlayerSide ==
    ASSUME NEW f, Sound(f), ~f.combo.request, ~f.combo.sent, NEW yHeld \in BOOLEAN
    PROVE  Prepared(PrePlayer(f, yHeld), f)
  <1> DEFINE h == PrePlayer(f, yHeld)
             g == ObserveStage(f)
             pressed == yHeld /\ ~y
             obsv == [kind |-> g.swing.kind, phase |-> Phase(g.swing), act |-> g.act]
             observed == [g EXCEPT !.obs = obsv]
             press == pressed /\ g.act # "stun"
             claimed == Claims(observed, press)
             c == ComboPre(observed, press)
             e == IF Locked(g.act) \/ Dead(g.act) THEN Exit(c) ELSE c
             step == Step(e, pressed /\ ~claimed)
             n == ComboCancel(g)
             r == ResetAttack(n)
  <1>1. h = IF ~FrameContext(f.act) THEN [r EXCEPT !.latch = FALSE] ELSE RuntimeTick(step)
    BY DEF PrePlayer
  <1>2. press \in BOOLEAN /\ (pressed /\ ~claimed) \in BOOLEAN
    OBVIOUS
  <1> DEFINE press2 == pressed /\ ~claimed
  <1>3. /\ Sound(g)
        /\ g.act = f.act /\ g.swing = f.swing /\ g.obs = f.obs /\ g.ground = f.ground
        /\ g.zero = f.zero /\ g.latch = f.latch /\ g.combo \in {f.combo, NoCombo}
        /\ Holding(g, {"swing"}) = Holding(f, {"swing"})
        /\ Holding(f, {"free"}) \subseteq Holding(g, {"free"})
        /\ Kept(f) /\ WavesHere(f) /\ Waits(f) => Kept(g) /\ WavesHere(g) /\ Waits(g)
    BY ObserveStageSide
  <1>4. Boxed(f) => Boxed(g)
    BY <1>3 DEF Boxed
  <1>5. Whole(g)
    BY <1>3 DEF Sound
  <1> HIDE DEF g, h, obsv
  <1>6. CASE ~FrameContext(f.act)
    <2>1. /\ ComboSide(n, g) /\ (Kept(g) => Kept(n)) /\ n.combo = NoCombo
      BY <1>3, ComboCancelSide
    <2> HIDE DEF n
    <2>2. Sound(n) /\ SwingSide(r, n) /\ r.swing = Idle /\ Boxed(r)
      BY <2>1, ResetAttackSide DEF ComboSide
    <2>3. Kept(n) => Kept(r)
      BY <2>2, SwingKept
    <2> HIDE DEF r
    <2>4. Whole(r)
      BY <2>2 DEF SwingSide, Sound
    <2>5. h = [r EXCEPT !.latch = FALSE]
      BY <1>1, <1>6
    <2>6. Whole(h)
      BY <2>4, <2>5 DEF Whole
    <2>7. /\ h.pool = r.pool /\ h.wave = r.wave /\ h.act = r.act /\ h.swing = r.swing
          /\ h.combo = r.combo /\ h.zero = r.zero /\ h.latch = FALSE /\ h.count = r.count
      BY <2>4, <2>5 DEF Whole
    <2>8. Sound(h) /\ Boxed(h) /\ (Kept(r) => Kept(h))
      BY <2>2, <2>6, <2>7, SameTaken DEF SwingSide, Sound, Boxed, Kept, Holding
    <2>9. /\ h.act = f.act /\ h.zero = f.zero /\ h.combo = NoCombo /\ h.swing = Idle
      BY <1>3, <2>1, <2>2, <2>7 DEF ComboSide, SwingSide
    <2>10. ~CanFire(f.act)
      BY <1>6 DEF FrameContext, CanFire, Playable
    <2> QED
      BY <1>3, <1>6, <2>1, <2>3, <2>7, <2>8, <2>9, <2>10 DEF Prepared, NoCombo, Idle, CanGoOn, h
  <1>7. CASE FrameContext(f.act)
    <2>1. /\ observed.pool = g.pool /\ observed.wave = g.wave /\ observed.act = g.act
          /\ observed.swing = g.swing /\ observed.ground = g.ground /\ observed.combo = g.combo
          /\ observed.zero = g.zero /\ observed.latch = g.latch /\ observed.seen = g.seen
          /\ observed.count = g.count
      BY <1>5 DEF Whole
    <2>2. Whole(observed)
      BY <1>5 DEF Whole
    <2> HIDE DEF observed
    <2>3. /\ Sound(observed) /\ (Boxed(g) => Boxed(observed)) /\ (Kept(g) => Kept(observed))
          /\ (WavesHere(g) => WavesHere(observed)) /\ (Waits(g) => Waits(observed))
          /\ \A T : Holding(observed, T) = Holding(g, T)
      BY <1>3, <2>1, <2>2, SameTaken DEF Sound, Boxed, Kept, WavesHere, Waits, Holding
    <2>4. ~observed.combo.request /\ ~observed.combo.sent
      BY <1>3, <2>1 DEF NoCombo
    <2>5. /\ ComboSide(c, observed)
          /\ Holding(observed, {"free"}) # {} => Holding(c, {"free"}) # {}
          /\ ~c.combo.sent
          /\ c.combo.window = IF claimed THEN 0 ELSE Less(observed.combo.window, 1)
          /\ c.combo.pre.burst = observed.zero.burst
          /\ c.combo.request => claimed
          /\ Kept(observed) /\ WavesHere(observed) /\ Waits(observed) =>
                /\ Kept(c) /\ WavesHere(c)
                /\ c.combo.reserved # None =>
                      c.combo.request \/ c.combo.reserved = observed.combo.reserved
      BY <1>2, <2>3, <2>4, ComboPreSide
    <2>6. claimed => f.combo.window > 0 /\ f.zero.slash = 0
      BY <1>3, <2>1 DEF Claims, NoCombo
    <2>7. c.combo.window \in {0, Less(f.combo.window, 1)}
      BY <1>3, <2>1, <2>5 DEF NoCombo, Less
    <2> HIDE DEF c, claimed, press
    <2>8. Sound(c) /\ Holding(c, {"swing"}) = Holding(f, {"swing"}) /\ (Boxed(f) => Boxed(c))
      BY <1>3, <1>4, <2>3, <2>5, ComboKept DEF ComboSide
    <2>9. /\ Sound(e) /\ SwingSide(e, c) /\ (Boxed(c) => Boxed(e)) /\ e.ground = c.ground
          /\ e.swing \in {c.swing, Idle}
          /\ CanFire(f.act) => e = c
      <3>1. SwingSide(c, c)
        BY <2>8, SwingItself
      <3>2. SwingSide(Exit(c), c) /\ Exit(c).swing = Idle /\ Boxed(Exit(c)) /\ Exit(c).ground = c.ground
        BY <2>8, ExitSide
      <3>3. CanFire(f.act) => ~(Locked(g.act) \/ Dead(g.act))
        BY <1>3 DEF CanFire, Locked, Dead, Playable
      <3>4. e \in {c, Exit(c)}
        OBVIOUS
      <3> HIDE DEF e
      <3> QED
        BY <3>1, <3>2, <3>3, <3>4 DEF SwingSide, e
    <2> HIDE DEF e
    <2>10. /\ SwingSide(step, e) /\ step.ground = e.ground
           /\ Loose(e) => Loose(step)
           /\ Holding(e, {"free"}) \subseteq Holding(step, {"free"})
      BY <1>2, <2>9, StepSide
    <2>11. /\ step.swing.kind = "air" =>
                 CanFire(e.act) /\ (e.swing.kind = "air" \/ ~Grounded(e.act))
           /\ Boxed(e) /\ CanGoOn(e) =>
                 /\ step.swing.kind # "none" /\ step.pool = e.pool
                 /\ step.swing.slot # None /\ step.swing.own => CurrentTagged(step)
      BY <1>2, <2>9, StepKind
    <2> HIDE DEF step
    <2>12. h = RuntimeTick(step) /\ Sound(step)
      BY <1>1, <1>7, <2>10 DEF SwingSide
    <2>13. /\ SwingSide(h, step) /\ h.ground = step.ground
           /\ h.swing.kind \in {step.swing.kind, "none"}
           /\ Loose(step) => Boxed(h)
           /\ /\ Loose(step) /\ Holding(step, {"free", "swing"}) # {}
              /\ step.swing.slot # None /\ step.swing.own => CurrentTagged(step)
              => h.swing.kind = step.swing.kind
      BY <2>12, RuntimeTickSide
    <2>14. SwingSide(h, c)
      BY <2>9, <2>10, <2>13, SwingTwice
    <2>15. /\ h.act = f.act /\ h.zero = f.zero /\ h.combo = c.combo /\ h.latch = f.latch
           /\ h.ground = f.ground
      BY <1>3, <2>1, <2>5, <2>9, <2>10, <2>13, <2>14 DEF SwingSide, ComboSide
    <2>16. Kept(c) => Kept(h)
      BY <2>14, SwingKept
    <2>17. Boxed(f) => Boxed(h)
      BY <2>8, <2>9, <2>10, <2>13, BoxedLoose
    <2>18. h.swing.kind = "air" => CanFire(f.act) /\ (f.swing.kind = "air" \/ ~Grounded(f.act))
      <3>1. e.act = f.act /\ c.swing = f.swing
        BY <1>3, <2>1, <2>5, <2>9 DEF SwingSide, ComboSide
      <3> QED
        BY <2>9, <2>11, <2>13, <3>1 DEF Idle
    <2>19. ASSUME Boxed(f), CanGoOn(f), Holding(f, {"free", "swing"}) # {}
           PROVE  h.swing.kind # "none"
      <3>1. e = c /\ c.swing = f.swing /\ c.act = f.act
        BY <1>3, <2>1, <2>5, <2>9, <2>19 DEF ComboSide, CanGoOn
      <3>2. CanGoOn(e) /\ Boxed(e)
        BY <2>8, <2>9, <2>19, <3>1 DEF CanGoOn
      <3>3. Holding(f, {"free"}) # {} => Holding(c, {"free"}) # {}
        BY <1>3, <2>3, <2>5
      <3>4. Holding(c, {"free", "swing"}) # {}
        BY <2>8, <2>19, <3>3 DEF Holding
      <3>5. Holding(step, {"free", "swing"}) # {}
        BY <2>11, <3>1, <3>2, <3>4 DEF Holding
      <3>6. Loose(step)
        BY <2>10, <3>2, BoxedLoose
      <3> QED
        BY <2>11, <2>13, <3>2, <3>5, <3>6
    <2>20. Kept(f) /\ WavesHere(f) /\ Waits(f) =>
              /\ Kept(h)
              /\ h.combo.reserved # None =>
                    \/ h.combo.request
                    \/ f.zero.slash \in 1 .. SlashWave - 1 /\ f.act \in Playable /\ ~special
      <3>1. Waits(f) /\ observed.combo.reserved # None =>
              f.zero.slash \in 1 .. SlashWave - 1 /\ f.act \in Playable /\ ~special
        BY <1>3, <2>1 DEF Waits, NoCombo
      <3> QED
        BY <1>3, <2>3, <2>5, <2>15, <2>16, <3>1
    <2>21. h.combo.request => f.combo.window > 0 /\ f.zero.slash = 0
      BY <2>5, <2>6, <2>15
    <2>22. h.combo.pre.burst = f.zero.burst /\ ~h.combo.sent /\ Sound(h)
      BY <1>3, <2>1, <2>5, <2>14, <2>15 DEF SwingSide
    <2> QED
      BY <1>7, <2>7, <2>15, <2>17, <2>18, <2>19, <2>20, <2>21, <2>22 DEF Prepared, h
  <1> QED
    BY <1>6, <1>7
-----------------------------------------------------------------------------
(* The invariants *)

\* Between two frames nothing is asked of Zero; while the native player runs
\* a finisher may be asked for, and Zero is told so once.
CoreInv ==
    /\ pc \in {"player", "native", "projectiles"}
    /\ Sound(Frame)
    /\ AtRest => ~combo.request /\ ~combo.sent
    /\ combo.sent => ~combo.request /\ zero.slash \in {0, 1}

BoxInv == Boxed(Frame)

KeptInv ==
    /\ Kept(Frame)
    /\ pc = "player" => WavesHere(Frame)
    /\ IF AtRest THEN Waits(Frame) ELSE Asked(Frame)

\* What the native player leaves is judged behind it by where it came from.
FitInv ==
    /\ SwingFitsBody
    /\ AtRest /\ CanFire(act) => ground = Grounded(act)
    /\ ~AtRest /\ swing.kind = "air" => ~ground

\* A charge is new while the finisher's window is, and gone with a burst.
ChargeInv ==
    /\ zero.charge \in Nat /\ zero.slash \in Nat /\ combo.window \in 0 .. WindowFrames
    /\ zero.combo \/ zero.burst # 0 => zero.charge = 0
    /\ combo.window > 0 => zero.charge + combo.window <= WindowFrames + 1
    /\ ~AtRest /\ combo.pre.burst = 2 => zero.charge <= 1
    /\ ~AtRest /\ act = "away" => zero.charge = 0
    /\ ChargeHeld

LEMMA Lands ==
    ASSUME NEW h, Becomes(h), UNCHANGED <<stage, special>>
    PROVE  /\ Sound(h) => Sound(Frame)'
           /\ Boxed(h) => Boxed(Frame)'
           /\ Kept(h) => Kept(Frame)'
           /\ WavesHere(h) => WavesHere(Frame)'
           /\ Waits(h) => Waits(Frame)'
           /\ Asked(h) => Asked(Frame)'
  <1>1. /\ act' = h.act /\ pool' = h.pool /\ wave' = h.wave /\ count' = h.count
        /\ swing' = h.swing /\ combo' = h.combo /\ zero' = h.zero
    BY DEF Becomes
  <1>2. Sound(h) => Sound(Frame)'
    BY <1>1 DEF Sound, Whole, Balanced, Taken, Frame
  <1>3. Boxed(h) => Boxed(Frame)'
    BY <1>1 DEF Boxed, Holding, Frame
  <1>4. Kept(h) => Kept(Frame)'
    BY <1>1 DEF Kept, Holding, Frame
  <1>5. WavesHere(h) => WavesHere(Frame)'
    BY <1>1 DEF WavesHere, Holding, Frame
  <1>6. (Waits(h) => Waits(Frame)') /\ (Asked(h) => Asked(Frame)')
    BY <1>1 DEF Waits, Asked, Frame
  <1> QED
    BY <1>2, <1>3, <1>4, <1>5, <1>6

-----------------------------------------------------------------------------
(* The hook before the native player, as a step *)

Latched(g, f, xHeld) ==
    /\ g.act = f.act /\ g.pool = f.pool /\ g.wave = f.wave /\ g.count = f.count
    /\ g.swing = f.swing /\ g.ground = f.ground /\ g.combo = f.combo /\ g.zero = f.zero
    /\ g.latch = IF FrameContext(f.act) THEN NextLatch(f, xHeld) ELSE f.latch

Listens(i, f, xHeld, yHeld) ==
    i = IF FrameContext(f.act) THEN LegacyIntent(f, xHeld)
        ELSE Intent(yHeld, yHeld /\ ~y, ~yHeld)

Hooked(f, g, i, h, xHeld, yHeld) ==
    /\ Prepared(f, Frame) /\ Sound(g) /\ Latched(g, f, xHeld) /\ Listens(i, f, xHeld, yHeld)
    /\ \/ KeepsCharge(g) /\ h = g
       \/ Cancels(h, g)
       \/ GoesOn(h, g)
       \/ Fires(h, g, i)
    /\ Becomes(h)

LEMMA HookIs ==
    ASSUME CoreInv, NEW xHeld \in BOOLEAN, NEW yHeld \in BOOLEAN, PlayerHook(xHeld, yHeld)
    PROVE  \E f, g, i, h : Hooked(f, g, i, h, xHeld, yHeld)
  <1> DEFINE f == PrePlayer(Frame, yHeld)
             i == IF FrameContext(act) THEN LegacyIntent(f, xHeld)
                  ELSE Intent(yHeld, yHeld /\ ~y, ~yHeld)
             g == IF FrameContext(act) THEN [f EXCEPT !.latch = NextLatch(f, xHeld)] ELSE f
  <1>1. pc = "player" /\ \E ready, due \in BOOLEAN : Becomes(ZeroTick(g, i, ready, due))
    BY DEF PlayerHook
  <1>2. PICK ready, due \in BOOLEAN : Becomes(ZeroTick(g, i, ready, due))
    BY <1>1
  <1> DEFINE h == ZeroTick(g, i, ready, due)
  <1>3. Sound(Frame) /\ ~Frame.combo.request /\ ~Frame.combo.sent /\ Frame.act = act
    BY <1>1 DEF CoreInv, AtRest, Frame
  <1>4. Prepared(f, Frame)
    BY <1>3, PrePlayerSide
  <1>5. f.act = act /\ Sound(f) /\ Whole(f)
    BY <1>3, <1>4 DEF Prepared, Sound
  <1>6. Listens(i, f, xHeld, yHeld)
    BY <1>5, Zenon DEF Listens
  <1> HIDE DEF f, i
  <1>7. Latched(g, f, xHeld) /\ Whole(g)
    BY <1>5 DEF Latched, Whole
  <1> HIDE DEF g
  <1>8. Sound(g)
    BY <1>5, <1>7, SameTaken DEF Latched, Sound
  <1>9. \/ KeepsCharge(g) /\ h = g
        \/ Cancels(h, g)
        \/ GoesOn(h, g)
        \/ Fires(h, g, i)
    BY <1>8, ZeroTickSide
  <1> HIDE DEF h
  <1>10. Hooked(f, g, i, h, xHeld, yHeld)
    BY <1>2, <1>4, <1>6, <1>7, <1>8, <1>9 DEF Hooked, h
  <1> QED
    BY <1>10

\* Whatever Zero does touches Zero's slots alone.
LEMMA TickIsZero ==
    ASSUME NEW f, NEW g, NEW i, NEW h, NEW xHeld, NEW yHeld, Hooked(f, g, i, h, xHeld, yHeld)
    PROVE  ZeroSide(h, g)
  <1>1. CASE KeepsCharge(g) /\ h = g
    BY <1>1, ZeroItself DEF Hooked, BusterSide
  <1>2. CASE Fires(h, g, i)
    <2>1. PICK t, a : Tracks(t, g) /\ Attacked(a, t, i) /\ Unhurried(h, a)
      BY <1>2 DEF Fires
    <2>2. ZeroSide(t, g) /\ ZeroSide(a, t) /\ ZeroSide(h, a)
      BY <2>1 DEF Tracks, Attacked, Charged, Unhurried, BusterSide
    <2> QED
      BY <2>2, ZeroTwice
  <1> QED
    BY <1>1, <1>2 DEF Hooked, Cancels, GoesOn

\* What a finisher is asked for is asked of Zero once.
LEMMA HookAsks ==
    ASSUME NEW f, NEW g, NEW i, NEW h, NEW xHeld, NEW yHeld, Hooked(f, g, i, h, xHeld, yHeld)
    PROVE  /\ h.combo.sent => ~h.combo.request /\ h.zero.slash \in {0, 1}
           /\ KeptInv /\ pc = "player" => Asked(h)
  <1>1. /\ g.combo = f.combo /\ g.zero = f.zero /\ g.act = f.act /\ ~f.combo.sent
        /\ f.act = act /\ f.zero = zero
        /\ f.combo.request => FrameContext(act) /\ zero.slash = 0
        /\ ~FrameContext(act) => f.combo = NoCombo
    BY DEF Hooked, Latched, Prepared, Frame
  <1>2. KeptInv /\ pc = "player" /\ f.combo.reserved # None =>
           f.combo.request \/ (zero.slash \in 1 .. SlashWave - 1 /\ act \in Playable /\ ~special)
    BY DEF Hooked, Prepared, KeptInv, AtRest, Frame
  <1>3. f.combo.reserved # None => act # "away"
    BY <1>1 DEF FrameContext, NoCombo
  <1>4. ZeroSide(h, g)
    BY TickIsZero
  <1>5. h.combo.reserved = f.combo.reserved /\ (h.act = "away" => act = "away")
    BY <1>1, <1>4 DEF ZeroSide
  <1>6. CASE KeepsCharge(g) /\ h = g
    <2>1. g.act \notin Playable
      BY <1>6 DEF KeepsCharge, Playable
    <2> QED
      BY <1>1, <1>2, <1>3, <1>6, <2>1 DEF Asked
  <1>7. CASE Cancels(h, g)
    <2>1. h.combo = g.combo /\ h.zero.slash = 0
      BY <1>7 DEF Cancels, NoZero
    <2>2. ~(zero.slash \in 1 .. SlashWave - 1 /\ act \in Playable /\ ~special)
      BY <1>1, <1>7, SaberAssumption DEF Cancels
    <2> QED
      BY <1>1, <1>2, <1>3, <1>5, <2>1, <2>2 DEF Asked
  <1>8. CASE GoesOn(h, g)
    <2>1. h.combo = g.combo /\ zero.slash # 0 /\ h.zero.slash = zero.slash + 1
      BY <1>1, <1>8 DEF GoesOn
    <2>2. zero.slash \in 1 .. SlashWave - 1 => h.zero.slash \in 1 .. SlashWave
      BY <2>1, SaberAssumption
    <2> QED
      BY <1>1, <1>2, <1>3, <1>5, <2>1, <2>2 DEF Asked
  <1>9. CASE Fires(h, g, i)
    <2>1. PICK t, a : Tracks(t, g) /\ Attacked(a, t, i) /\ Unhurried(h, a)
      BY <1>9 DEF Fires
    <2>2. h.combo = t.combo /\ h.zero.slash = t.zero.slash
      BY <2>1 DEF Attacked, Charged, Unhurried, BusterSide
    <2>3. g.zero.slash = 0 /\ ~special
      BY <1>9 DEF Fires
    <2>4. CASE ~Requested(g)
      <3>1. h.combo = f.combo /\ ~f.combo.request
        BY <1>1, <2>1, <2>2, <2>3, <2>4 DEF Tracks, Requested
      <3>2. ~(zero.slash \in 1 .. SlashWave - 1)
        BY <1>1, <2>3
      <3> QED
        BY <1>1, <1>2, <3>1, <3>2 DEF Asked
    <2>5. CASE Requested(g)
      <3>1. ~h.combo.request /\ h.zero.slash \in {0, 1} /\ h.combo.sent
        BY <2>1, <2>2, <2>3, <2>5 DEF Tracks
      <3> QED
        BY <1>3, <1>5, <2>3, <3>1 DEF Asked
    <2> QED
      BY <2>4, <2>5
  <1> QED
    BY <1>6, <1>7, <1>8, <1>9 DEF Hooked

\* The slots, and the swing that can go on.
LEMMA HookSlots ==
    ASSUME CoreInv, NEW xHeld \in BOOLEAN, NEW yHeld \in BOOLEAN, PlayerHook(xHeld, yHeld)
    PROVE  /\ CoreInv'
           /\ BoxInv => BoxInv'
           /\ KeptInv => KeptInv'
           /\ BoxInv /\ CanGoOn(Frame) /\ Holding(Frame, {"free", "swing"}) # {} =>
                 swing'.kind # "none"
  <1>0. pc = "player" /\ pc' = "native" /\ UNCHANGED <<stage, special>>
    BY DEF PlayerHook
  <1>1. PICK f, g, i, h : Hooked(f, g, i, h, xHeld, yHeld)
    BY HookIs
  <1>2. Becomes(h) /\ Prepared(f, Frame) /\ Latched(g, f, xHeld)
    BY <1>1 DEF Hooked
  <1>3. ZeroSide(h, g)
    BY <1>1, TickIsZero
  <1>4. (Boxed(g) => Boxed(h)) /\ (Kept(g) => Kept(h))
    BY <1>3, ZeroKept
  <1>5. (Boxed(f) => Boxed(g)) /\ (Kept(f) => Kept(g))
    BY <1>2 DEF Latched, Boxed, Kept, Holding
  <1>6. /\ h.combo.sent => ~h.combo.request /\ h.zero.slash \in {0, 1}
        /\ KeptInv /\ pc = "player" => Asked(h)
    BY <1>1, HookAsks
  <1>7. Sound(h) /\ h.swing = f.swing
    BY <1>2, <1>3 DEF ZeroSide, Latched
  <1>8. /\ Sound(h) => Sound(Frame)'
        /\ Boxed(h) => Boxed(Frame)'
        /\ Kept(h) => Kept(Frame)'
        /\ Asked(h) => Asked(Frame)'
    BY <1>0, <1>2, Lands
  <1>9. swing' = h.swing /\ combo' = h.combo /\ zero' = h.zero
    BY <1>2 DEF Becomes
  <1>10. CoreInv'
    BY <1>0, <1>6, <1>7, <1>8, <1>9 DEF CoreInv, AtRest
  <1>11. BoxInv => BoxInv'
    BY <1>2, <1>4, <1>5, <1>8 DEF BoxInv, Prepared
  <1>12. KeptInv => Kept(f)
    BY <1>0, <1>2 DEF KeptInv, AtRest, Prepared
  <1>13. KeptInv => KeptInv'
    BY <1>0, <1>4, <1>5, <1>6, <1>8, <1>12 DEF KeptInv, AtRest
  <1>14. BoxInv /\ CanGoOn(Frame) /\ Holding(Frame, {"free", "swing"}) # {} => f.swing.kind # "none"
    BY <1>2 DEF BoxInv, Prepared
  <1> QED
    BY <1>7, <1>9, <1>10, <1>11, <1>13, <1>14

\* The swing and the ground that it has left.
LEMMA HookFits ==
    ASSUME CoreInv, FitInv, NEW xHeld \in BOOLEAN, NEW yHeld \in BOOLEAN, PlayerHook(xHeld, yHeld)
    PROVE  FitInv'
  <1>0. pc = "player" /\ pc' = "native" /\ UNCHANGED <<stage, special>>
    BY DEF PlayerHook
  <1>1. PICK f, g, i, h : Hooked(f, g, i, h, xHeld, yHeld)
    BY HookIs
  <1>2. Becomes(h) /\ Prepared(f, Frame) /\ Latched(g, f, xHeld)
    BY <1>1 DEF Hooked
  <1>3. ZeroSide(h, g)
    BY <1>1, TickIsZero
  <1>4. swing' = f.swing /\ ground' = f.ground
    BY <1>2, <1>3 DEF Becomes, ZeroSide, Latched
  <1>5. f.swing.kind = "air" =>
           FrameContext(act) /\ CanFire(act) /\ (swing.kind = "air" \/ ~Grounded(act))
    BY <1>2 DEF Prepared, Frame
  <1>6. FrameContext(act) => f.ground = ground
    BY <1>2 DEF Prepared, Frame
  <1>7. swing.kind = "air" => ~Grounded(act)
    BY <1>0 DEF FitInv, SwingFitsBody, AtRest
  <1>8. CanFire(act) => ground = Grounded(act)
    BY <1>0 DEF FitInv, AtRest
  <1> QED
    BY <1>0, <1>4, <1>5, <1>6, <1>7, <1>8 DEF FitInv, SwingFitsBody, AtRest

\* The pad while a swing or a finisher owns the action.
LEMMA PadKeepsRelease ==
    ASSUME NEW f, NEW xHeld \in BOOLEAN, ~Dead(f.act)
    PROVE  LET i == LegacyIntent(f, xHeld)
           IN  /\ i.held \/ i.released
               /\ i.held => xHeld \/ NextLatch(f, xHeld)
               /\ i.pressed => ~Slashing(f)
               /\ ~i.held => ~ChargeOwned(f, xHeld) \/ ~Slashing(f)
  <1> DEFINE i == LegacyIntent(f, xHeld)
             pressed == xHeld /\ ~x
  <1>0. ASSUME NEW p, i = Intent(xHeld, p, ~xHeld)
        PROVE  (i.held \/ i.released) /\ (i.held => xHeld)
    <2>1. i.held = xHeld /\ i.released = ~xHeld
      BY <1>0 DEF Intent
    <2> HIDE DEF i
    <2> QED
      BY <2>1
  <1>1. CASE ~ChargeOwned(f, xHeld) /\ Slashing(f)
    <2>1. i = Intent(FALSE, FALSE, TRUE)
      BY <1>1, Zenon DEF LegacyIntent
    <2> QED
      BY <1>1, <2>1 DEF Intent
  <1>2. CASE ~ChargeOwned(f, xHeld) /\ ~Slashing(f)
    <2>1. i = Intent(xHeld, pressed /\ ~Locked(f.act), ~xHeld)
      BY <1>2, Zenon DEF LegacyIntent
    <2>2. (i.held \/ i.released) /\ (i.held => xHeld)
      BY <1>0, <2>1
    <2> HIDE DEF i
    <2> QED
      BY <1>2, <2>2 DEF i
  <1>3. CASE ChargeOwned(f, xHeld) /\ Slashing(f)
    <2>1. i = Intent(TRUE, FALSE, FALSE)
      BY <1>3, Zenon DEF LegacyIntent
    <2>2. xHeld \/ NextLatch(f, xHeld)
      BY <1>3 DEF NextLatch
    <2> QED
      BY <1>3, <2>1, <2>2 DEF Intent
  <1>4. CASE ChargeOwned(f, xHeld) /\ ~Slashing(f)
    <2>1. i \in {Intent(xHeld, FALSE, ~xHeld), Intent(xHeld, pressed /\ ~f.latch, ~xHeld)}
      BY <1>4, Zenon DEF LegacyIntent
    <2>2. (i.held \/ i.released) /\ (i.held => xHeld)
      BY <1>0, <2>1
    <2> HIDE DEF i
    <2> QED
      BY <1>4, <2>2 DEF i
  <1> QED
    BY <1>1, <1>2, <1>3, <1>4

\* A charge that Zero's tick leaves is still being held, or waits for the end
\* of the attack that holds it back.
LEMMA HookCharge ==
    ASSUME CoreInv, ChargeInv, NEW xHeld \in BOOLEAN, NEW yHeld \in BOOLEAN,
           PlayerHook(xHeld, yHeld)
    PROVE  /\ ChargeInv'
           /\ /\ zero.burst = 0 /\ zero'.burst # 0 /\ FrameContext(act)
              /\ swing'.kind # "none" \/ zero'.slash # 0
              => ~xHeld /\ ~x /\ ~latch
  <1>0. pc = "player" /\ pc' = "native" /\ x' = xHeld /\ y' = yHeld
    BY DEF PlayerHook
  <1>1. PICK f, g, i, h : Hooked(f, g, i, h, xHeld, yHeld)
    BY HookIs
  <1>2. Becomes(h) /\ Prepared(f, Frame) /\ Latched(g, f, xHeld)
    BY <1>1 DEF Hooked
  <1>3. ZeroSide(h, g)
    BY <1>1, TickIsZero
  <1>4. /\ f.zero = zero /\ f.act = act /\ g.zero = zero /\ g.act = act /\ g.combo = f.combo
        /\ g.swing = f.swing /\ g.latch = IF FrameContext(act) THEN NextLatch(f, xHeld) ELSE f.latch
    BY <1>2 DEF Prepared, Latched, Frame
  <1>5. /\ act' = h.act /\ zero' = h.zero /\ swing' = f.swing /\ latch' = g.latch
        /\ combo'.window = f.combo.window /\ combo'.pre = f.combo.pre
    BY <1>2, <1>3, <1>4 DEF Becomes, ZeroSide
  <1>6. /\ f.combo.window \in {0, Less(combo.window, 1)}
        /\ f.combo.request => FrameContext(act) /\ combo.window > 0 /\ zero.slash = 0
        /\ f.combo.pre.burst \in {0, zero.burst}
        /\ FrameContext(act) => f.latch = latch
    BY <1>2 DEF Prepared, NoCombo, NoPre, Frame
  <1>7. /\ zero.charge \in Nat /\ zero.slash \in Nat /\ combo.window \in 0 .. WindowFrames
        /\ zero.combo \/ zero.burst # 0 => zero.charge = 0
        /\ combo.window > 0 => zero.charge + combo.window <= WindowFrames + 1
    BY DEF ChargeInv
  <1>8. act' = act \/ act' = "stand"
    BY <1>3, <1>4, <1>5 DEF ZeroSide
  <1>9. ASSUME zero'.charge \in {0, zero.charge, zero.charge + 1}, zero'.slash \in Nat,
               zero'.combo \/ zero'.burst # 0 => zero'.charge = 0,
               act = "away" => zero'.charge = 0,
               ChargeHeld'
        PROVE  ChargeInv'
    <2>1. zero'.charge \in Nat /\ combo'.window \in 0 .. WindowFrames
      BY <1>5, <1>6, <1>7, <1>9, SaberAssumption DEF Less
    <2>2. combo'.window > 0 => zero'.charge + combo'.window <= WindowFrames + 1
      BY <1>5, <1>6, <1>7, <1>9, SaberAssumption DEF Less
    <2>3. combo'.pre.burst = 2 => zero'.charge <= 1
      BY <1>5, <1>6, <1>7, <1>9
    <2>4. act' = "away" => zero'.charge = 0
      BY <1>8, <1>9
    <2> QED
      BY <1>9, <2>1, <2>2, <2>3, <2>4 DEF ChargeInv
  <1>10. CASE KeepsCharge(g) /\ h = g
    <2>1. zero' = zero /\ act = "hurt" /\ act' = "hurt"
      BY <1>4, <1>5, <1>10 DEF KeepsCharge
    <2>2. ChargeHeld'
      BY <2>1 DEF ChargeHeld
    <2> QED
      BY <1>7, <1>9, <2>1, <2>2
  <1>11. CASE Cancels(h, g)
    <2>1. zero' = NoZero
      BY <1>5, <1>11 DEF Cancels
    <2>2. zero'.charge = 0 /\ zero'.slash = 0 /\ ~zero'.combo /\ zero'.burst = 0
      BY <2>1 DEF NoZero
    <2>3. ChargeHeld'
      BY <2>2 DEF ChargeHeld
    <2> QED
      BY <1>9, <2>2, <2>3
  <1>12. CASE GoesOn(h, g)
    <2>1. /\ zero'.slash = zero.slash + 1 /\ zero'.charge = zero.charge
          /\ zero'.combo = zero.combo /\ zero'.burst \in {zero.burst, 0}
          /\ act # "away"
      BY <1>4, <1>5, <1>12 DEF GoesOn, Playable
    <2>2. zero'.slash > 0
      BY <1>7, <2>1
    <2>3. ChargeHeld'
      BY <2>2 DEF ChargeHeld
    <2> QED
      BY <1>7, <1>9, <2>1, <2>2, <2>3
  <1>13. CASE Fires(h, g, i)
    <2>1. PICK t, a : Tracks(t, g) /\ Attacked(a, t, i) /\ Unhurried(h, a)
      BY <1>13 DEF Fires
    <2>2. /\ zero'.charge = a.zero.charge /\ zero'.combo = a.zero.combo
          /\ zero'.burst = a.zero.burst /\ zero'.slash = t.zero.slash
      BY <1>5, <2>1 DEF Unhurried, BusterSide, Attacked, Charged
    <2>3. /\ t.zero.charge = zero.charge /\ t.zero.burst \in {zero.burst, 0}
          /\ t.zero.slash \in {0, 1}
          /\ t.zero.combo => zero.combo
          /\ t.zero.slash # 0 => f.combo.request /\ ~t.zero.combo
      BY <1>4, <1>13, <2>1 DEF Tracks, Fires, Requested
    <2>4. /\ zero.slash = 0 /\ act \in Playable \cup {"shut"} /\ ~special
          /\ ~Dead(act) /\ act # "away" /\ ~Locked(act)
      BY <1>4, <1>13 DEF Fires, Playable, Dead, Locked
    <2>5. /\ i.held \/ i.released
          /\ i.held => IF FrameContext(act) THEN xHeld \/ latch' ELSE yHeld
          /\ FrameContext(act) => /\ i.pressed => ~Slashing(f)
                                  /\ ~i.held => ~ChargeOwned(f, xHeld) \/ ~Slashing(f)
      <3>1. i = IF FrameContext(act) THEN LegacyIntent(f, xHeld)
                ELSE Intent(yHeld, yHeld /\ ~y, ~yHeld)
        BY <1>1, <1>4 DEF Hooked, Listens
      <3>2. CASE FrameContext(act)
        <4>1. i = LegacyIntent(f, xHeld) /\ ~Dead(f.act)
          BY <1>4, <2>4, <3>1, <3>2
        <4>2. latch' = NextLatch(f, xHeld)
          BY <1>4, <1>5, <3>2
        <4> QED
          BY <3>2, <4>1, <4>2, PadKeepsRelease
      <3>3. CASE ~FrameContext(act)
        <4>1. i = Intent(yHeld, yHeld /\ ~y, ~yHeld)
          BY <3>1, <3>3
        <4>2. i.held = yHeld /\ i.released = ~yHeld
          BY <4>1 DEF Intent
        <4> QED
          BY <3>3, <4>2
      <3> QED
        BY <3>2, <3>3
    <2>6. /\ zero'.charge \in {0, zero.charge, zero.charge + 1}
          /\ zero'.combo \/ zero'.burst # 0 => zero'.charge = 0
          /\ zero'.charge > 0 => i.held
      BY <1>7, <2>1, <2>2, <2>3, <2>5 DEF Attacked, Charged
    <2>7. ChargeHeld'
      <3>1. ~FrameContext(act) => act = "shut" /\ act' = "shut"
        BY <1>3, <1>4, <1>5, <2>4 DEF FrameContext, Playable, ZeroSide, Grounded
      <3>2. zero'.charge > 0 => IF FrameContext(act) THEN xHeld \/ latch' ELSE yHeld
        BY <2>5, <2>6
      <3> QED
        BY <1>0, <3>1, <3>2 DEF ChargeHeld
    <2>8. ChargeInv'
      BY <1>9, <2>2, <2>3, <2>4, <2>6, <2>7
    <2>9. ASSUME zero.burst = 0, zero'.burst # 0, FrameContext(act),
                 swing'.kind # "none" \/ zero'.slash # 0
          PROVE  ~xHeld /\ ~x /\ ~latch
      <3>1. t.zero.burst = 0
        BY <2>3, <2>9
      <3>2. \/ ~i.held /\ t.zero.charge >= ChargeFull
            \/ t.zero.combo /\ i.pressed
        BY <2>1, <2>2, <2>9, <3>1 DEF Attacked, Charged
      <3>3. Slashing(f) \/ t.zero.slash # 0
        BY <1>5, <2>2, <2>9 DEF Slashing
      <3>4. ~(t.zero.combo /\ i.pressed)
        BY <2>3, <2>5, <2>9, <3>3
      <3>5. ~i.held /\ zero.charge >= ChargeFull
        BY <2>3, <3>2, <3>4
      <3>6. ~f.combo.request
        BY <1>6, <1>7, <3>5, SaberAssumption
      <3>7. ~ChargeOwned(f, xHeld)
        BY <2>3, <2>5, <2>9, <3>3, <3>5, <3>6
      <3> QED
        BY <1>6, <2>4, <2>9, <3>7 DEF ChargeOwned
    <2> QED
      BY <2>8, <2>9
  <1>14. ASSUME zero'.burst = zero.burst \/ zero'.burst = 0, zero.burst = 0 PROVE zero'.burst = 0
    BY <1>14
  <1>15. KeepsCharge(g) /\ h = g => zero'.burst = zero.burst
    BY <1>4, <1>5
  <1>16. Cancels(h, g) => zero'.burst = 0
    BY <1>5 DEF Cancels, NoZero
  <1>17. GoesOn(h, g) => zero'.burst \in {zero.burst, 0}
    BY <1>4, <1>5 DEF GoesOn
  <1> QED
    BY <1>1, <1>10, <1>11, <1>12, <1>13, <1>14, <1>15, <1>16, <1>17 DEF Hooked

-----------------------------------------------------------------------------
(* The native player, and the hook behind it *)

Ended(h, f) ==
    /\ Sound(h) /\ h.act = f.act /\ h.zero = f.zero /\ ~h.combo.request /\ ~h.combo.sent
    /\ Boxed(f) => Boxed(h)
    /\ Kept(f) => Kept(h)
    /\ Asked(f) /\ h.combo.reserved # None =>
          f.zero.slash \in 1 .. SlashWave - 1 /\ ~special /\ CanFire(f.act)
    /\ h.combo.window \in {0, IF OpensWindow(f) THEN WindowFrames ELSE f.combo.window}
    /\ CanFire(f.act) => h.ground = Grounded(f.act)
    /\ h.swing.kind # "none" =>
          /\ CanFire(f.act) /\ h.swing.kind = f.swing.kind
          /\ h.swing.kind = "wall" => f.act = "wall"
          /\ h.swing.kind = "air" => f.ground \/ ~Grounded(f.act)

LEMMA PlayerEndSide ==
    ASSUME NEW f, Sound(f), f.combo.sent => ~f.combo.request /\ f.zero.slash \in {0, 1}
    PROVE  Ended(PlayerEnd(f), f)
  <1> DEFINE h == PlayerEnd(f)
             n == ComboCancel(f)
             D == Holding(f, {"held", "wave"})
             m == Emptied(n, D)
             c == ComboEnd(f)
  <1>0. f.act \in AllActions
    BY DEF Sound, Whole
  <1>1. /\ ComboSide(n, f) /\ n.combo = NoCombo
        /\ Kept(f) => Kept(n) /\ Holding(n, {"held"}) = {}
    BY ComboCancelSide
  <1>2. Sound(n) /\ n.act = f.act /\ n.zero = f.zero
    BY <1>1 DEF ComboSide
  <1> HIDE DEF n
  <1>3. ASSUME NEW e, Sound(e), e.act = f.act, e.zero = f.zero, e.combo = NoCombo,
               Kept(f) => Holding(e, {"held"}) = {}, h = Exit(e), ~CanFire(f.act)
        PROVE  Ended(h, f)
    <2>1. /\ SwingSide(h, e) /\ h.swing = Idle /\ Boxed(h)
          /\ \A d \in Slots : h.pool[d] = IF e.pool[d] = "swing" THEN "free" ELSE e.pool[d]
      BY <1>3, ExitSide
    <2>2. Sound(h) /\ h.act = f.act /\ h.zero = f.zero /\ h.combo = NoCombo
      BY <1>3, <2>1 DEF SwingSide
    <2>3. Kept(f) => Holding(h, {"held"}) = {}
      BY <1>3, <2>1 DEF Holding
    <2>4. Kept(f) => Kept(h)
      BY <2>2, <2>3 DEF Kept, NoCombo
    <2> QED
      BY <1>3, <2>1, <2>2, <2>4 DEF Ended, NoCombo, Idle
  <1>4. CASE Dead(f.act)
    <2>1. /\ Sound(m) /\ Same(m, n)
          /\ \A d \in Slots : m.pool[d] = IF d \in D THEN "free" ELSE n.pool[d]
      BY <1>2, EmptiedSound DEF Holding
    <2>2. h = Exit(m) /\ ~CanFire(f.act)
      BY <1>4 DEF PlayerEnd, Dead, CanFire, Playable, n
    <2> HIDE DEF m, h
    <2>3. Kept(f) => Holding(m, {"held"}) = {}
      BY <1>1, <2>1 DEF Holding
    <2> QED
      BY <1>1, <1>2, <1>3, <2>1, <2>2, <2>3 DEF Same, h
  <1>5. CASE ~Dead(f.act) /\ (Locked(f.act) \/ ~FrameContext(f.act))
    <2>1. h = Exit(n) /\ ~CanFire(f.act)
      BY <1>5 DEF PlayerEnd, Locked, FrameContext, CanFire, Playable, n
    <2> HIDE DEF h
    <2> QED
      BY <1>1, <1>2, <1>3, <2>1 DEF h
  <1>6. CASE ~Dead(f.act) /\ ~Locked(f.act) /\ FrameContext(f.act)
    <2>0. CanFire(f.act)
      BY <1>0, <1>6 DEF AllActions, Dead, Locked, FrameContext, CanFire, Playable
    <2>1. h = AttackEnd(c)
      BY <1>6, Zenon DEF PlayerEnd
    <2>2. /\ ComboSide(c, f)
          /\ ~c.combo.request /\ ~c.combo.sent
          /\ Kept(f) => Kept(c)
          /\ Asked(f) /\ c.combo.reserved # None =>
                c.zero.slash \in 1 .. SlashWave - 1 /\ ~special
          /\ c.combo.window = IF OpensWindow(f) THEN WindowFrames ELSE f.combo.window
      BY ComboEndSide
    <2> HIDE DEF c, h
    <2>3. /\ Sound(c) /\ c.act = f.act /\ c.swing = f.swing /\ c.ground = f.ground
          /\ c.zero = f.zero /\ (Boxed(f) => Boxed(c))
      BY <2>2, ComboKept DEF ComboSide
    <2>4. /\ SwingSide(h, c) /\ h.ground = Grounded(c.act)
          /\ Boxed(c) => Boxed(h)
          /\ h.swing.kind \in {c.swing.kind, "none"}
          /\ h.swing.kind = "wall" => c.act = "wall"
          /\ h.swing.kind = "air" => c.ground \/ ~Grounded(c.act)
      BY <2>1, <2>3, AttackEndSide
    <2>5. Kept(c) => Kept(h)
      BY <2>4, SwingKept
    <2>6. Sound(h) /\ h.act = c.act /\ h.zero = c.zero /\ h.combo = c.combo
      BY <2>4 DEF SwingSide
    <2> QED
      BY <2>0, <2>2, <2>3, <2>4, <2>5, <2>6 DEF Ended, h
  <1> QED
    BY <1>4, <1>5, <1>6

LEMMA NativeStep ==
    ASSUME CoreInv, NEW a \in Actions, NativePlayer(a)
    PROVE  /\ CoreInv'
           /\ BoxInv => BoxInv'
           /\ KeptInv /\ "odd" \notin Actions => KeptInv'
           /\ FitInv => FitInv'
           /\ ChargeInv => ChargeInv'
  <1> DEFINE f == [Frame EXCEPT !.act = a]
             h == PlayerEnd(f)
  <1>0. /\ pc = "native" /\ pc' = "projectiles" /\ UNCHANGED <<stage, special>> /\ Becomes(h)
        /\ a \in AllActions
    BY SaberAssumption DEF NativePlayer
  <1>1. /\ f.act = a /\ f.pool = pool /\ f.wave = wave /\ f.count = count /\ f.swing = swing
        /\ f.ground = ground /\ f.combo = combo /\ f.zero = zero
    BY DEF Frame
  <1>2. Sound(Frame) /\ Whole(Frame)
    BY DEF CoreInv, Sound
  <1>3. Whole(f)
    BY <1>0, <1>2 DEF Whole
  <1>4. f.pool = Frame.pool /\ f.count = Frame.count
    BY <1>1 DEF Frame
  <1> HIDE DEF f
  <1>5. Sound(f)
    BY <1>2, <1>3, <1>4, SameTaken DEF Sound
  <1>6. Ended(h, f)
    BY <1>1, <1>5, PlayerEndSide DEF CoreInv
  <1> HIDE DEF h
  <1>7. /\ Sound(h) => Sound(Frame)'
        /\ Boxed(h) => Boxed(Frame)'
        /\ Kept(h) => Kept(Frame)'
        /\ Waits(h) => Waits(Frame)'
    BY <1>0, Lands
  <1>8. /\ act' = a /\ zero' = zero /\ combo' = h.combo /\ swing' = h.swing /\ ground' = h.ground
    BY <1>0, <1>1, <1>6 DEF Becomes, Ended
  <1>9. CoreInv'
    BY <1>0, <1>6, <1>7, <1>8 DEF CoreInv, Ended, AtRest
  <1>10. BoxInv => BoxInv'
    <2>1. Boxed(Frame) => Boxed(f)
      BY <1>1 DEF Boxed, Holding, Frame
    <2> QED
      BY <1>6, <1>7, <2>1 DEF BoxInv, Ended
  <1>11. ASSUME KeptInv, "odd" \notin Actions PROVE KeptInv'
    <2>1. Kept(f)
      BY <1>1, <1>11 DEF KeptInv, Kept, Holding, Frame
    <2>2. h.combo.reserved # None => Asked(f)
      <3>1. Asked(Frame)
        BY <1>0, <1>11 DEF KeptInv, AtRest
      <3>2. CASE a = "away"
        <4>1. ~CanFire(a) /\ a # "odd"
          BY <3>2 DEF CanFire, Playable
        <4>2. h = Exit(ComboCancel(f))
          BY <1>1, <3>2 DEF h, PlayerEnd, Dead, Locked, FrameContext
        <4>3. ComboSide(ComboCancel(f), f) /\ ComboCancel(f).combo = NoCombo
          BY <1>5, ComboCancelSide
        <4>4. SwingSide(h, ComboCancel(f))
          BY <4>2, <4>3, ExitSide DEF ComboSide
        <4> QED
          BY <4>3, <4>4 DEF SwingSide, NoCombo
      <3>3. CASE a # "away"
        BY <1>1, <3>1, <3>3 DEF Asked, Frame
      <3> QED
        BY <3>2, <3>3
    <2>3. h.combo.reserved # None =>
            zero.slash \in 1 .. SlashWave - 1 /\ ~special /\ CanFire(a)
      BY <1>1, <1>6, <2>2 DEF Ended
    <2>4. CanFire(a) => a \in Playable
      BY <1>11 DEF CanFire
    <2>5. Waits(h)
      BY <1>1, <1>6, <2>3, <2>4 DEF Waits, Ended
    <2>6. Kept(h)
      BY <1>6, <2>1 DEF Ended
    <2> QED
      BY <1>0, <1>7, <2>5, <2>6 DEF KeptInv, AtRest
  <1>12. ASSUME FitInv PROVE FitInv'
    <2>1. swing.kind = "air" => ~ground
      BY <1>0, <1>12 DEF FitInv, AtRest
    <2>2. /\ CanFire(a) => h.ground = Grounded(a)
          /\ h.swing.kind # "none" =>
                /\ CanFire(a) /\ h.swing.kind = swing.kind
                /\ h.swing.kind = "wall" => a = "wall"
                /\ h.swing.kind = "air" => ground \/ ~Grounded(a)
      BY <1>1, <1>6 DEF Ended
    <2> QED
      BY <1>0, <1>8, <2>1, <2>2 DEF FitInv, SwingFitsBody, AtRest
  <1>13. ASSUME ChargeInv PROVE ChargeInv'
    <2>1. h.combo.window \in {0, combo.window, WindowFrames}
          /\ (h.combo.window # 0 /\ h.combo.window # combo.window => combo.pre.burst = 2)
      BY <1>1, <1>6 DEF Ended, OpensWindow
    <2>2. combo.pre.burst = 2 => zero.charge <= 1
      BY <1>0, <1>13 DEF ChargeInv, AtRest
    <2>3. combo'.window \in 0 .. WindowFrames
      BY <1>8, <1>13, <2>1, SaberAssumption DEF ChargeInv
    <2>4. combo'.window > 0 => zero'.charge + combo'.window <= WindowFrames + 1
      BY <1>8, <1>13, <2>1, <2>2, SaberAssumption DEF ChargeInv
    <2> QED
      BY <1>0, <1>8, <1>13, <2>3, <2>4 DEF ChargeInv, AtRest, ChargeHeld
  <1> QED
    BY <1>9, <1>10, <1>11, <1>12, <1>13

-----------------------------------------------------------------------------
(* The projectiles and the rest of the guest *)

LEMMA TickedStage ==
    ASSUME NEW w, DOMAIN w = WaveFields
    PROVE  DOMAIN Ticked(w) = WaveFields /\ Ticked(w).stage = w.stage
  BY DEF Ticked

LEMMA ProjectilesStep ==
    ASSUME CoreInv, NEW lost, Projectiles(lost)
    PROVE  /\ CoreInv'
           /\ BoxInv => BoxInv'
           /\ KeptInv => KeptInv'
           /\ FitInv => FitInv'
           /\ ChargeInv => ChargeInv'
  <1> DEFINE waves == Holding(Frame, {"wave"})
             spent == {d \in Slots : Spent(d, lost)}
             ticked == [d \in Slots |-> IF d \in waves THEN Ticked(wave[d]) ELSE wave[d]]
             f == [Frame EXCEPT !.wave = ticked]
             g == Emptied(f, spent)
             h == IF swing.slot \in spent THEN Exit(g) ELSE g
  <1>0. /\ pc = "projectiles" /\ pc' = "player" /\ UNCHANGED <<stage, special, x, y>> /\ Becomes(h)
    BY DEF Projectiles
  <1>1. Sound(Frame) /\ Whole(Frame)
    BY DEF CoreInv, Sound
  <1>2. /\ f.act = act /\ f.pool = pool /\ f.wave = ticked /\ f.count = count /\ f.swing = swing
        /\ f.ground = ground /\ f.combo = combo /\ f.zero = zero
    BY DEF Frame
  <1>3. /\ DOMAIN ticked = Slots
        /\ \A d \in Slots : DOMAIN ticked[d] = WaveFields /\ ticked[d].stage = wave[d].stage
        /\ \A d \in Slots : d \notin waves => ticked[d] = wave[d]
    <2>1. \A d \in Slots : DOMAIN wave[d] = WaveFields
      BY <1>1 DEF Whole, Frame
    <2> QED
      BY <2>1, TickedStage
  <1> HIDE DEF ticked
  <1>4. Whole(f)
    BY <1>1, <1>3 DEF Whole, Frame
  <1>5. f.pool = Frame.pool /\ f.count = Frame.count
    BY <1>2 DEF Frame
  <1> HIDE DEF f
  <1>6. Sound(f)
    BY <1>1, <1>4, <1>5, SameTaken DEF Sound
  <1>7. /\ spent \in SUBSET Slots
        /\ \A d \in spent : pool[d] \in {"swing", "slash", "wave"}
        /\ \A d \in Slots : pool[d] = "wave" /\ d \notin spent => wave[d].stage = stage
    BY DEF Spent
  <1> HIDE DEF spent
  <1>8. /\ Sound(g) /\ Same(g, f)
        /\ \A d \in Slots : /\ g.pool[d] = IF d \in spent THEN "free" ELSE pool[d]
                            /\ g.wave[d] = IF d \in spent THEN NoWave ELSE ticked[d]
    BY <1>2, <1>6, <1>7, EmptiedSound
  <1> HIDE DEF g, h
  <1>9. /\ Sound(h) /\ h.act = act /\ h.combo = combo /\ h.zero = zero /\ h.ground = ground
        /\ h.swing \in {swing, Idle}
        /\ \A d \in Slots : /\ g.pool[d] \in {"held", "wave"} <=> h.pool[d] \in {"held", "wave"}
                            /\ g.pool[d] \in {"held", "wave"} =>
                                  h.pool[d] = g.pool[d] /\ h.wave[d] = g.wave[d]
        /\ (h = g /\ swing.slot \notin spent) \/ Boxed(h)
    <2>1. CASE swing.slot \in spent
      <3>1. h = Exit(g)
        BY <2>1 DEF h
      <3>2. /\ SwingSide(h, g) /\ h.swing = Idle /\ h.ground = g.ground /\ Boxed(h)
        BY <1>8, <3>1, ExitSide
      <3> QED
        BY <1>2, <1>8, <3>2 DEF SwingSide, Same
    <2>2. CASE swing.slot \notin spent
      BY <1>2, <1>8, <2>2 DEF h, Same
    <2> QED
      BY <2>1, <2>2
  <1>10. Boxed(Frame) => Boxed(h)
    <2>1. ASSUME Boxed(Frame), h = g, swing.slot \notin spent PROVE Boxed(h)
      <3>1. /\ Holding(Frame, {"swing"}) = IF Phase(swing) = "active" THEN {swing.slot} ELSE {}
            /\ Phase(swing) = "active" => swing.own
            /\ Phase(swing) # "active" => swing.slot = None
        BY <2>1 DEF Boxed, Frame
      <3>2. \A d \in Slots : pool[d] = "swing" => d \notin spent
        BY <2>1, <3>1 DEF Holding, Frame
      <3>3. Holding(h, {"swing"}) = Holding(Frame, {"swing"}) /\ h.swing = swing
        BY <1>2, <1>8, <2>1, <3>2 DEF Holding, Frame, Same
      <3> QED
        BY <3>1, <3>3 DEF Boxed
    <2> QED
      BY <1>9, <2>1
  <1>11. Kept(Frame) => Kept(h)
    <2>1. \A d \in Slots : /\ h.pool[d] = "held" <=> pool[d] = "held"
                           /\ h.pool[d] = "held" => h.wave[d].stage = wave[d].stage
      BY <1>3, <1>7, <1>8, <1>9
    <2> QED
      BY <1>9, <2>1 DEF Kept, Holding, Frame
  <1>12. WavesHere(h)
    <2>1. \A d \in Slots : h.pool[d] = "wave" => h.wave[d].stage = stage
      BY <1>3, <1>7, <1>8, <1>9
    <2> QED
      BY <2>1 DEF WavesHere, Holding
  <1>13. /\ Sound(h) => Sound(Frame)'
         /\ Boxed(h) => Boxed(Frame)'
         /\ Kept(h) => Kept(Frame)'
         /\ WavesHere(h) => WavesHere(Frame)'
    BY <1>0, Lands
  <1>14. act' = act /\ combo' = combo /\ zero' = zero /\ ground' = ground /\ swing' \in {swing, Idle}
    BY <1>0, <1>9 DEF Becomes
  <1>15. CoreInv'
    BY <1>0, <1>9, <1>13, <1>14 DEF CoreInv, AtRest
  <1>16. KeptInv => KeptInv'
    BY <1>0, <1>11, <1>12, <1>13, <1>14 DEF KeptInv, AtRest, Waits, Frame
  <1>17. FitInv => FitInv'
    BY <1>0, <1>14 DEF FitInv, SwingFitsBody, AtRest, Idle
  <1>18. ChargeInv => ChargeInv'
    BY <1>0, <1>14 DEF ChargeInv, AtRest, ChargeHeld
  <1> QED
    BY <1>10, <1>13, <1>15, <1>16, <1>17, <1>18 DEF BoxInv

\* A step that leaves the modules alone; and one that leaves them their slots.
Quiet(h) ==
    /\ Sound(h) /\ h.act = act /\ h.combo = combo /\ h.zero = zero /\ h.ground = ground
    /\ h.latch = latch
    /\ h.swing.kind = swing.kind /\ h.swing.tick = swing.tick /\ h.swing.slot = swing.slot
    /\ h.swing.own = swing.own
Aside(h) ==
    \A d \in Slots : /\ {h.pool[d], pool[d]} \cap {"swing", "held"} # {} => h.pool[d] = pool[d]
                     /\ h.pool[d] \in {"held", "wave"} =>
                           h.pool[d] = pool[d] /\ h.wave[d].stage = wave[d].stage

LEMMA QuietStep ==
    ASSUME CoreInv, NEW h, Quiet(h), Becomes(h), UNCHANGED <<stage, special, x, y, pc>>
    PROVE  /\ CoreInv'
           /\ BoxInv /\ Aside(h) => BoxInv'
           /\ KeptInv /\ Aside(h) => KeptInv'
           /\ FitInv => FitInv'
           /\ ChargeInv => ChargeInv'
  <1>1. /\ Sound(h) => Sound(Frame)'
        /\ Boxed(h) => Boxed(Frame)'
        /\ Kept(h) => Kept(Frame)'
        /\ WavesHere(h) => WavesHere(Frame)'
    BY Lands
  <1>2. /\ act' = act /\ combo' = combo /\ zero' = zero /\ ground' = ground /\ latch' = latch
        /\ swing'.kind = swing.kind
    BY DEF Becomes, Quiet
  <1>3. CoreInv'
    BY <1>1, <1>2 DEF CoreInv, AtRest, Quiet
  <1>4. Aside(h) /\ Boxed(Frame) => Boxed(h)
    <2>1. Phase(h.swing) = Phase(swing)
      BY DEF Quiet, Phase
    <2>2. Aside(h) => Holding(h, {"swing"}) = Holding(Frame, {"swing"})
      BY DEF Aside, Holding, Frame
    <2> QED
      BY <2>1, <2>2 DEF Boxed, Quiet, Frame
  <1>5. Aside(h) => (Kept(Frame) => Kept(h)) /\ (WavesHere(Frame) => WavesHere(h))
    BY DEF Aside, Quiet, Kept, WavesHere, Holding, Frame
  <1>6. KeptInv /\ Aside(h) => KeptInv'
    BY <1>1, <1>2, <1>5 DEF KeptInv, AtRest, Waits, Asked, Frame
  <1>7. FitInv => FitInv'
    BY <1>2 DEF FitInv, SwingFitsBody, AtRest
  <1>8. ChargeInv => ChargeInv'
    BY <1>2 DEF ChargeInv, AtRest, ChargeHeld
  <1> QED
    BY <1>1, <1>3, <1>4, <1>6, <1>7, <1>8 DEF BoxInv

\* Slots of nobody's, or of waves and shots, are emptied.
LEMMA EmptiedQuiet ==
    ASSUME CoreInv, NEW D \in SUBSET Slots
    PROVE  LET h == Emptied(Frame, D)
           IN  /\ Quiet(h)
               /\ (\A d \in D : pool[d] \notin {"swing", "held"}) => Aside(h)
  <1> DEFINE h == Emptied(Frame, D)
  <1>1. /\ Sound(h) /\ Same(h, Frame)
        /\ \A d \in Slots : /\ h.pool[d] = IF d \in D THEN "free" ELSE pool[d]
                            /\ h.wave[d] = IF d \in D THEN NoWave ELSE wave[d]
    <2>1. /\ Sound(h) /\ Same(h, Frame)
          /\ \A d \in Slots : /\ h.pool[d] = IF d \in D THEN "free" ELSE Frame.pool[d]
                              /\ h.wave[d] = IF d \in D THEN NoWave ELSE Frame.wave[d]
      BY EmptiedSound DEF CoreInv
    <2>2. Frame.pool = pool /\ Frame.wave = wave
      BY DEF Frame
    <2> HIDE DEF h
    <2> QED
      BY <2>1, <2>2
  <1> HIDE DEF h
  <1>2. Quiet(h)
    BY <1>1 DEF Quiet, Same, Frame
  <1>3. (\A d \in D : pool[d] \notin {"swing", "held"}) => Aside(h)
    BY <1>1 DEF Aside
  <1> QED
    BY <1>2, <1>3 DEF h

LEMMA SwingHitStep ==
    ASSUME CoreInv, NEW e, SwingHit(e)
    PROVE  \E h : Quiet(h) /\ Aside(h) /\ Becomes(h) /\ UNCHANGED <<stage, special, x, y, pc>>
  <1> DEFINE s == [swing EXCEPT !.hits = @ \cup {e}]
             h == [Frame EXCEPT !.swing = s]
  <1>1. Sound(Frame) /\ Whole(Frame)
    BY DEF CoreInv, Sound
  <1>2. /\ h.act = act /\ h.pool = pool /\ h.wave = wave /\ h.count = count /\ h.swing = s
        /\ h.obs = obs /\ h.ground = ground /\ h.combo = combo /\ h.zero = zero
        /\ h.latch = latch /\ h.seen = seen
    BY DEF Frame
  <1>3. /\ DOMAIN s = SwingFields /\ s.kind = swing.kind /\ s.tick = swing.tick
        /\ s.slot = swing.slot /\ s.own = swing.own
    BY <1>1 DEF Whole, Frame
  <1>4. swing' = s
    BY DEF SwingHit
  <1> HIDE DEF s
  <1>5. Whole(h)
    BY <1>1, <1>3 DEF Whole, Frame
  <1>6. h.pool = Frame.pool /\ h.count = Frame.count
    BY <1>2 DEF Frame
  <1> HIDE DEF h
  <1>7. Sound(h)
    BY <1>1, <1>5, <1>6, SameTaken DEF Sound
  <1>8. Quiet(h) /\ Aside(h)
    BY <1>2, <1>3, <1>7 DEF Quiet, Aside
  <1>9. Becomes(h) /\ UNCHANGED <<stage, special, x, y, pc>>
    BY <1>2, <1>4 DEF SwingHit, Becomes
  <1> QED
    BY <1>8, <1>9

LEMMA WaveHitStep ==
    ASSUME CoreInv, NEW d \in Slots, NEW e, WaveHit(d, e)
    PROVE  \E h : Quiet(h) /\ Aside(h) /\ Becomes(h) /\ UNCHANGED <<stage, special, x, y, pc>>
  <1> DEFINE pulse == [wave[d] EXCEPT !.cut = e, !.pulses = @ + 1, !.wait = PulseFrames]
             h == [Frame EXCEPT !.wave[d] = pulse]
  <1>0. /\ pool[d] = "wave" /\ UNCHANGED <<stage, special, x, y, pc>>
        /\ Becomes(h) \/ Becomes(Emptied(Frame, {d}))
    BY DEF WaveHit
  <1>1. Sound(Frame) /\ Whole(Frame)
    BY DEF CoreInv, Sound
  <1>2. CASE Becomes(Emptied(Frame, {d}))
    <2>1. {d} \in SUBSET Slots /\ \A c \in {d} : pool[c] \notin {"swing", "held"}
      BY <1>0
    <2> QED
      BY <1>0, <1>2, <2>1, EmptiedQuiet
  <1>3. CASE Becomes(h)
    <2>1. /\ h.act = act /\ h.pool = pool /\ h.count = count /\ h.swing = swing
          /\ h.ground = ground /\ h.combo = combo /\ h.zero = zero /\ h.latch = latch
      BY DEF Frame
    <2>2. DOMAIN wave[d] = WaveFields /\ DOMAIN wave = Slots
      BY <1>1 DEF Whole, Frame
    <2>3. DOMAIN pulse = WaveFields /\ pulse.stage = wave[d].stage
      BY <2>2
    <2> HIDE DEF pulse
    <2>4. /\ DOMAIN h.wave = Slots
          /\ \A c \in Slots : h.wave[c] = IF c = d THEN pulse ELSE wave[c]
      BY <2>2 DEF Frame
    <2>5. \A c \in Slots : DOMAIN h.wave[c] = WaveFields /\ h.wave[c].stage = wave[c].stage
      BY <1>1, <2>3, <2>4 DEF Whole, Frame
    <2>6. DOMAIN h = FrameFields
      BY DEF Frame
    <2> HIDE DEF h
    <2>7. Whole(h)
      BY <1>1, <2>1, <2>4, <2>5, <2>6 DEF Whole, Frame
    <2>8. h.pool = Frame.pool /\ h.count = Frame.count
      BY <2>1 DEF Frame
    <2>9. Sound(h)
      BY <1>1, <2>7, <2>8, SameTaken DEF Sound
    <2>10. Quiet(h) /\ Aside(h)
      BY <2>1, <2>5, <2>9 DEF Quiet, Aside
    <2> QED
      BY <1>0, <1>3, <2>10
  <1> QED
    BY <1>0, <1>2, <1>3

LEMMA SlotEndsStep ==
    ASSUME CoreInv, NEW d \in Slots, WaveReflected(d) \/ ShotEnds(d)
    PROVE  \E h : Quiet(h) /\ Aside(h) /\ Becomes(h) /\ UNCHANGED <<stage, special, x, y, pc>>
  <1>1. /\ pool[d] \notin {"swing", "held"} /\ UNCHANGED <<stage, special, x, y, pc>>
        /\ Becomes(Emptied(Frame, {d}))
    BY DEF WaveReflected, ShotEnds
  <1>2. {d} \in SUBSET Slots /\ \A c \in {d} : pool[c] \notin {"swing", "held"}
    BY <1>1
  <1> QED
    BY <1>1, <1>2, EmptiedQuiet

LEMMA NativeShotStep ==
    ASSUME CoreInv, NativeShot
    PROVE  \E h : Quiet(h) /\ Aside(h) /\ Becomes(h) /\ UNCHANGED <<stage, special, x, y, pc>>
  <1> DEFINE d == First(Holding(Frame, {"free"}))
             h == Filled(Frame, d, "shot", NoWave)
  <1>0. /\ Holding(Frame, {"free"}) # {} /\ Becomes(h) /\ UNCHANGED <<stage, special, x, y, pc>>
    BY DEF NativeShot
  <1>1. d \in Slots /\ Frame.pool[d] = "free"
    BY <1>0, FirstHeld
  <1> HIDE DEF d
  <1>2. /\ Sound(h) /\ Same(h, Frame)
        /\ \A e \in Slots : /\ h.pool[e] = IF e = d THEN "shot" ELSE Frame.pool[e]
                            /\ h.wave[e] = IF e = d THEN NoWave ELSE Frame.wave[e]
    BY <1>1, FilledSound DEF CoreInv, Live, Things, NoWave
  <1>3. Frame.pool = pool /\ Frame.wave = wave
    BY DEF Frame
  <1> HIDE DEF h
  <1>4. Quiet(h)
    BY <1>2 DEF Quiet, Same, Frame
  <1>5. Aside(h)
    BY <1>1, <1>2, <1>3 DEF Aside
  <1> QED
    BY <1>0, <1>4, <1>5

LEMMA LoadStep ==
    ASSUME CoreInv, LoadState
    PROVE  \E h : /\ Quiet(h) /\ Becomes(h) /\ UNCHANGED <<stage, special, x, y, pc>>
                  /\ ~Loads => Aside(h)
  <1> DEFINE tagged == Holding(Frame, {"swing", "held", "wave"})
             h == Emptied(Frame, tagged)
  <1>1. tagged \in SUBSET Slots /\ (~Loads => tagged = {})
    BY DEF LoadState, Holding
  <1>2. Becomes(h) /\ UNCHANGED <<stage, special, x, y, pc>>
    BY DEF LoadState
  <1> HIDE DEF tagged
  <1>3. Quiet(h) /\ ((\A d \in tagged : pool[d] \notin {"swing", "held"}) => Aside(h))
    BY <1>1, EmptiedQuiet
  <1> QED
    BY <1>1, <1>2, <1>3

LEMMA RespawnStep ==
    ASSUME CoreInv, Respawn
    PROVE  /\ CoreInv' /\ BoxInv'
           /\ KeptInv => KeptInv'
           /\ FitInv'
           /\ ChargeInv => ChargeInv'
  <1> DEFINE r == ResetAttack(Frame)
             n == ComboCancel(r)
             D == Holding(Frame, {"held", "wave"})
             m == Emptied(n, D)
             h == Reset(Frame)
  <1>0. /\ pc = "native" /\ pc' = pc /\ act = "away" /\ UNCHANGED <<stage, special>> /\ Becomes(h)
    BY DEF Respawn
  <1>1. /\ SwingSide(r, Frame) /\ r.swing = Idle /\ Boxed(r)
    BY ResetAttackSide DEF CoreInv
  <1> HIDE DEF r
  <1>2. /\ ComboSide(n, r) /\ n.combo = NoCombo
        /\ Kept(r) => Kept(n) /\ Holding(n, {"held"}) = {}
    BY <1>1, ComboCancelSide DEF SwingSide
  <1>3. Sound(n) /\ Boxed(n) /\ n.act = act /\ n.zero = zero /\ n.swing = Idle
    BY <1>1, <1>2, ComboKept DEF ComboSide, SwingSide, Frame
  <1>4. Kept(Frame) => Holding(n, {"held"}) = {}
    BY <1>1, <1>2, SwingKept
  <1> HIDE DEF n
  <1>5. /\ Sound(m) /\ Same(m, n)
        /\ \A d \in Slots : m.pool[d] = IF d \in D THEN "free" ELSE n.pool[d]
    BY <1>3, EmptiedSound DEF Holding
  <1>6. h = [m EXCEPT !.latch = FALSE]
    BY Zenon DEF Reset, m, n, r
  <1>7. \A d \in D : n.pool[d] # "swing"
    BY <1>3 DEF Boxed, Holding, Phase, Idle
  <1> HIDE DEF m, h
  <1>8. Whole(m)
    BY <1>5 DEF Sound
  <1>9. Whole(h)
    BY <1>6, <1>8 DEF Whole
  <1>10. /\ h.pool = m.pool /\ h.wave = m.wave /\ h.act = m.act /\ h.swing = m.swing
         /\ h.combo = m.combo /\ h.zero = m.zero /\ h.count = m.count
    BY <1>6, <1>8 DEF Whole
  <1>11. /\ Sound(h) /\ h.act = act /\ h.zero = zero /\ h.combo = NoCombo /\ h.swing = Idle
    BY <1>2, <1>3, <1>5, <1>9, <1>10, SameTaken DEF Sound, Same
  <1>12. Boxed(h)
    <2>1. Holding(h, {"swing"}) = {}
      BY <1>3, <1>5, <1>10 DEF Boxed, Holding, Phase, Idle
    <2> QED
      BY <1>11, <2>1 DEF Boxed, Phase, Idle
  <1>13. Kept(Frame) => Kept(h)
    <2>1. Kept(Frame) => Holding(h, {"held"}) = {}
      BY <1>4, <1>5, <1>10 DEF Holding
    <2> QED
      BY <1>11, <2>1 DEF Kept, NoCombo
  <1>14. Asked(h)
    BY <1>11 DEF Asked, NoCombo
  <1>15. /\ Sound(h) => Sound(Frame)'
         /\ Boxed(h) => Boxed(Frame)'
         /\ Kept(h) => Kept(Frame)'
         /\ Asked(h) => Asked(Frame)'
    BY <1>0, Lands
  <1>16. act' = act /\ zero' = zero /\ combo' = NoCombo /\ swing' = Idle
    BY <1>0, <1>11 DEF Becomes
  <1>17. CoreInv'
    BY <1>0, <1>11, <1>15, <1>16 DEF CoreInv, AtRest, NoCombo
  <1>18. KeptInv => KeptInv'
    BY <1>0, <1>13, <1>14, <1>15 DEF KeptInv, AtRest
  <1>19. FitInv'
    BY <1>0, <1>16 DEF FitInv, SwingFitsBody, AtRest, Idle
  <1>20. ASSUME ChargeInv PROVE ChargeInv'
    <2>1. zero.charge = 0
      BY <1>0, <1>20 DEF ChargeInv, AtRest
    <2> QED
      BY <1>0, <1>16, <1>20, <2>1, SaberAssumption DEF ChargeInv, AtRest, ChargeHeld, NoCombo, NoPre
  <1> QED
    BY <1>12, <1>15, <1>17, <1>18, <1>19, <1>20 DEF BoxInv

\* Another weapon, and a stage that begins with what is in the pool.
LEMMA SelectStep ==
    ASSUME CoreInv, SwitchWeapon \/ NewStage
    PROVE  /\ CoreInv'
           /\ BoxInv => BoxInv'
           /\ KeptInv /\ ~SwitchInSlash => KeptInv'
           /\ FitInv => FitInv'
           /\ ChargeInv => ChargeInv'
  <1>1. /\ pc = "native" /\ pc' = pc /\ act' = act /\ pool' = pool /\ wave' = wave /\ count' = count
        /\ swing' = swing /\ obs' = obs /\ ground' = ground /\ combo' = combo /\ zero' = zero
        /\ latch' = latch /\ seen' = seen /\ x' = x /\ y' = y
    BY DEF SwitchWeapon, NewStage
  <1>2. Frame' = Frame
    BY <1>1 DEF Frame
  <1>3. Sound(Frame)' <=> Sound(Frame)
    BY <1>1 DEF Sound, Whole, Balanced, Taken, Frame
  <1>4. Boxed(Frame) => Boxed(Frame)'
    BY <1>1 DEF Boxed, Holding, Frame
  <1>5. CoreInv'
    BY <1>1, <1>3 DEF CoreInv, AtRest
  <1>6. ASSUME KeptInv, ~SwitchInSlash PROVE KeptInv'
    <2>1. Kept(Frame) /\ Asked(Frame)
      BY <1>1, <1>6 DEF KeptInv, AtRest
    <2>2. combo.reserved = None
      BY <1>6, <2>1 DEF Asked, SwitchWeapon, NewStage, Frame
    <2>3. Holding(Frame, {"held"}) = {}
      BY <2>1, <2>2 DEF Kept, Frame
    <2>4. Kept(Frame)'
      BY <1>1, <2>2, <2>3 DEF Kept, Holding, Frame
    <2>5. Asked(Frame)'
      BY <1>1, <2>1, <2>2 DEF Asked, Frame
    <2> QED
      BY <1>1, <2>4, <2>5 DEF KeptInv, AtRest
  <1>7. FitInv => FitInv'
    BY <1>1 DEF FitInv, SwingFitsBody, AtRest
  <1>8. ChargeInv => ChargeInv'
    BY <1>1 DEF ChargeInv, AtRest, ChargeHeld
  <1> QED
    BY <1>4, <1>5, <1>6, <1>7, <1>8 DEF BoxInv

-----------------------------------------------------------------------------
(* Every step, and the theorems *)

\* A loaded state, a change of weapon under a young finisher, and an action
\* that Zero does not play, each break what they are left out for here.
Keeps ==
    /\ CoreInv'
    /\ BoxInv /\ ~Loads => BoxInv'
    /\ KeptInv /\ ~Loads /\ ~SwitchInSlash /\ "odd" \notin Actions => KeptInv'
    /\ FitInv => FitInv'
    /\ ChargeInv => ChargeInv'

LEMMA StepKeeps == ASSUME CoreInv, [Next]_vars PROVE Keeps
  <1>1. ASSUME NEW xHeld \in BOOLEAN, NEW yHeld \in BOOLEAN, PlayerHook(xHeld, yHeld)
        PROVE  Keeps
    BY <1>1, HookSlots, HookFits, HookCharge DEF Keeps
  <1>2. ASSUME NEW a \in Actions, NativePlayer(a) PROVE Keeps
    BY <1>2, NativeStep DEF Keeps
  <1>3. ASSUME NEW lost, Projectiles(lost) PROVE Keeps
    BY <1>3, ProjectilesStep DEF Keeps
  <1>4. ASSUME \E h : /\ Quiet(h) /\ Becomes(h) /\ UNCHANGED <<stage, special, x, y, pc>>
                      /\ ~Loads => Aside(h)
        PROVE  Keeps
    BY <1>4, QuietStep DEF Keeps
  <1>5. ASSUME NEW e \in Enemies, SwingHit(e) PROVE Keeps
    BY <1>4, <1>5, SwingHitStep
  <1>6. ASSUME NEW d \in Slots, NEW e \in Enemies, WaveHit(d, e) PROVE Keeps
    BY <1>4, <1>6, WaveHitStep
  <1>7. ASSUME NEW d \in Slots, WaveReflected(d) \/ ShotEnds(d) PROVE Keeps
    BY <1>4, <1>7, SlotEndsStep
  <1>8. CASE NativeShot
    BY <1>4, <1>8, NativeShotStep
  <1>9. CASE LoadState
    BY <1>4, <1>9, LoadStep
  <1>10. CASE Respawn
    BY <1>10, RespawnStep DEF Keeps
  <1>11. CASE SwitchWeapon \/ NewStage
    BY <1>11, SelectStep DEF Keeps
  <1>12. CASE UNCHANGED vars
    <2>1. /\ act' = act /\ pool' = pool /\ wave' = wave /\ count' = count /\ stage' = stage
          /\ special' = special /\ swing' = swing /\ obs' = obs /\ ground' = ground
          /\ combo' = combo /\ zero' = zero /\ latch' = latch /\ seen' = seen
          /\ x' = x /\ y' = y /\ pc' = pc
      BY <1>12 DEF vars
    <2>2. Becomes(Frame)
      BY <2>1 DEF Becomes, Frame
    <2>3. Quiet(Frame) /\ Aside(Frame)
      BY DEF CoreInv, Quiet, Aside, Frame
    <2> QED
      BY <1>4, <2>1, <2>2, <2>3
  <1> QED
    BY <1>1, <1>2, <1>3, <1>5, <1>6, <1>7, <1>8, <1>9, <1>10, <1>11, <1>12 DEF Next

LEMMA Initially == ASSUME Init PROVE CoreInv /\ BoxInv /\ KeptInv /\ FitInv /\ ChargeInv
  <1>1. /\ act = "stand" /\ pool = [d \in Slots |-> "free"] /\ wave = [d \in Slots |-> NoWave]
        /\ count = 0 /\ swing = Idle /\ ground = TRUE /\ combo = NoCombo /\ zero = NoZero
        /\ pc = "player"
    BY DEF Init
  <1>2. Whole(Frame)
    BY <1>1 DEF Whole, Frame, Idle, NoCombo, NoZero, NoWave, Things, AllActions
  <1>3. \A t : Holding(Frame, {t}) = IF t = "free" THEN Slots ELSE {}
    BY <1>1 DEF Holding, Frame
  <1>4. Taken(Frame) = {}
    BY <1>1 DEF Taken, Live, Frame
  <1>5. Sound(Frame)
    BY <1>1, <1>2, <1>4, FS_EmptySet DEF Sound, Balanced, Frame
  <1>6. CoreInv
    BY <1>1, <1>5 DEF CoreInv, NoCombo
  <1>7. BoxInv
    BY <1>1, <1>3 DEF BoxInv, Boxed, Frame, Phase, Idle
  <1>8. KeptInv
    <2>1. Frame.combo.reserved = None /\ ~Frame.combo.request /\ ~Frame.combo.sent
          /\ Frame.zero = NoZero
      BY <1>1 DEF Frame, NoCombo
    <2>2. Holding(Frame, {"held"}) = {} /\ Holding(Frame, {"wave"}) = {}
      BY <1>3
    <2>3. Kept(Frame)
      BY <2>1, <2>2 DEF Kept, NoZero
    <2>4. WavesHere(Frame)
      BY <2>2 DEF WavesHere
    <2>5. Waits(Frame)
      BY <2>1 DEF Waits, NoZero
    <2> QED
      BY <1>1, <2>3, <2>4, <2>5 DEF KeptInv, AtRest
  <1>9. FitInv
    BY <1>1 DEF FitInv, SwingFitsBody, AtRest, Idle, Grounded
  <1>10. ChargeInv
    BY <1>1, SaberAssumption DEF ChargeInv, ChargeHeld, AtRest, NoCombo, NoZero
  <1> QED
    BY <1>6, <1>7, <1>8, <1>9, <1>10

\* Between two frames nothing is asked of Zero, the guest's count is that of
\* its live slots and every field has its type, whatever is loaded or chosen.
THEOREM CoreAlways == Spec => []CoreInv
  BY Initially, StepKeeps, PTL DEF Spec, Keeps

\* After player_end the swing suits the body (MmxSaberAttackPlayerEnd): for
\* every timing, every order of landings, hits, deaths and rides, and also
\* through loaded states and changes of weapon.
THEOREM SwingFitsBodyAlways == Spec => []SwingFitsBody
  <1>1. FitInv => SwingFitsBody
    BY DEF FitInv
  <1> QED
    BY <1>1, Initially, StepKeeps, CoreAlways, PTL DEF Spec, Keeps

\* Every slot is accounted for, for every number of slots and every timing,
\* unless a state is loaded while a slot is tagged, the weapon changes under a
\* finisher that has not thrown its wave, or an action that is not Zero's to
\* play begins: those three are the runs' to refute.
THEOREM SlotsAccountedAlways ==
    ASSUME ~Loads, ~SwitchInSlash, "odd" \notin Actions
    PROVE  Spec => []SlotsAccounted
  <1>1. ASSUME CoreInv, BoxInv, KeptInv PROVE SlotsAccounted
    <2>1. Frame.pool = pool /\ Frame.count = count /\ Frame.swing = swing /\ Frame.combo = combo
          /\ Frame.zero = zero /\ Frame.wave = wave
      BY DEF Frame
    <2>2. CountMatches
      <3>1. \A d \in Slots : pool[d] \in Things
        BY <1>1, <2>1 DEF CoreInv, Sound, Whole
      <3>2. Taken(Frame) = Holding(Frame, {t \in Things : Live(t)})
        BY <2>1, <3>1 DEF Taken, Holding
      <3> QED
        BY <1>1, <2>1, <3>2 DEF CoreInv, Sound, Balanced, CountMatches
    <2>3. HitboxOwned
      BY <1>1, <2>1 DEF BoxInv, Boxed, HitboxOwned
    <2>4. ReservationFaithful
      BY <1>1, <2>1 DEF KeptInv, Kept, Waits, ReservationFaithful
    <2>5. StageOwnsWaves
      BY <1>1, <2>1 DEF KeptInv, Kept, WavesHere, StageOwnsWaves, Holding
    <2> QED
      BY <2>2, <2>3, <2>4, <2>5 DEF SlotsAccounted
  <1> QED
    BY <1>1, Initially, StepKeeps, CoreAlways, PTL DEF Spec, Keeps

\* A swing goes on if its body can and its slot is there to be had, however
\* many slots there are (MmxSaberComboCanReserve leaves one to the finisher).
THEOREM SwingSurvivesAlways == ASSUME ~Loads PROVE Spec => SwingSurvives
  <1>1. ASSUME CoreInv, BoxInv, [Next]_vars
        PROVE  [/\ pc = "player" /\ pc' = "native" /\ swing.kind # "none" /\ CanFire(act)
                /\ swing.kind = "dash" => Grounded(act)
                /\ swing.tick + 1 < Timing[swing.kind].total
                /\ Holding(Frame, {"free", "swing"}) # {}
                => swing'.kind # "none"]_vars
    <2>1. ASSUME pc = "player", pc' = "native", swing.kind # "none", CanFire(act),
                 swing.kind = "dash" => Grounded(act),
                 swing.tick + 1 < Timing[swing.kind].total,
                 Holding(Frame, {"free", "swing"}) # {}
          PROVE  swing'.kind # "none"
      <3>1. PICK xHeld, yHeld \in BOOLEAN : PlayerHook(xHeld, yHeld)
        BY <1>1, <2>1 DEF Next, vars, NativePlayer, Projectiles, SwingHit, WaveHit, WaveReflected,
           ShotEnds, NativeShot, SwitchWeapon, NewStage, Respawn, LoadState
      <3>2. CanGoOn(Frame)
        BY <2>1 DEF CanGoOn, Frame
      <3> QED
        BY <1>1, <2>1, <3>1, <3>2, HookSlots
    <2> QED
      BY <2>1
  <1> QED
    BY <1>1, Initially, StepKeeps, CoreAlways, PTL DEF Spec, Keeps, SwingSurvives

\* A swing neither keeps a charge nor lets one go (legacy_intent,
\* update_release_pending): for every length of a charge and of the window of
\* a finisher that is shorter, and through loaded states.
THEOREM SwingLeavesChargeAlways == Spec => SwingLeavesCharge
  <1>1. ChargeInv => ChargeHeld
    BY DEF ChargeInv
  <1>2. ASSUME CoreInv, ChargeInv, [Next]_vars
        PROVE  [/\ pc = "player" /\ zero.burst = 0 /\ zero'.burst # 0 /\ FrameContext(act)
                /\ swing'.kind # "none" \/ zero'.slash # 0
                => ~x' /\ ~x /\ ~latch]_vars
    <2>1. ASSUME pc = "player", zero.burst = 0, zero'.burst # 0, FrameContext(act),
                 swing'.kind # "none" \/ zero'.slash # 0
          PROVE  ~x' /\ ~x /\ ~latch
      <3>1. (\E xHeld, yHeld \in BOOLEAN : PlayerHook(xHeld, yHeld)) \/ zero' = zero
        <4>1. ASSUME \E h : Quiet(h) /\ Becomes(h) PROVE zero' = zero
          BY <4>1 DEF Quiet, Becomes
        <4>2. ASSUME NEW e \in Enemies, SwingHit(e) PROVE zero' = zero
          BY <4>2 DEF SwingHit
        <4>3. ASSUME NEW d \in Slots, NEW e \in Enemies, WaveHit(d, e) PROVE zero' = zero
          BY <1>2, <4>1, <4>3, WaveHitStep
        <4>4. ASSUME NEW d \in Slots, WaveReflected(d) \/ ShotEnds(d) PROVE zero' = zero
          BY <1>2, <4>1, <4>4, SlotEndsStep
        <4>5. CASE LoadState
          BY <1>2, <4>1, <4>5, LoadStep
        <4>6. CASE UNCHANGED vars
          BY <4>6 DEF vars
        <4> QED
          BY <1>2, <2>1, <4>2, <4>3, <4>4, <4>5, <4>6 DEF Next, NativePlayer, Projectiles,
             NativeShot, SwitchWeapon, NewStage, Respawn
      <3>2. PICK xHeld, yHeld \in BOOLEAN : PlayerHook(xHeld, yHeld)
        BY <2>1, <3>1
      <3>3. x' = xHeld
        BY <3>2 DEF PlayerHook
      <3> QED
        BY <1>2, <2>1, <3>2, <3>3, HookCharge
    <2> QED
      BY <2>1
  <1> QED
    BY <1>1, <1>2, Initially, StepKeeps, CoreAlways, PTL DEF Spec, Keeps, SwingLeavesCharge
===============================================================================

------------------------------ MODULE WeaponShots ------------------------------
(***************************************************************************)
(* A frame of the imported weapons: the time stop may keep the frame back, *)
(* the player's tick cleans up and feeds the weapon's own hook, the guest  *)
(* fires, every projectile slot ticks in order, and the world goes on:     *)
(* enemies come, die and are replaced in their slot, are hit, are held by  *)
(* the partner; the player may fall, and a new stage clears the slots.     *)
(***************************************************************************)
EXTENDS WeaponHolds

CONSTANTS
    Weapons,        \* the imported weapons played, by name
    MaxEvents       \* changes of enemies, partner and stage in a behavior
ASSUME ShotsAssumption ==
    /\ MaxEvents \in Nat
    /\ Weapons \subseteq {"crystal", "bomb", "well", "chain", "bubble", "silk", "mine", "burner",
                          "wheel", "slicer", "acid", "ray", "frost", "fang", "thunder", "blade"}
Holders == {"crystal", "bomb", "well"}

VARIABLES
    weapon,     \* the weapon in hand, or "buster"
    arena,      \* slots, records and the enemies they name (WeaponPool)
    holding,    \* the fire button is held in this frame (read by silk and cursors)
    moved,      \* the player fell or the stage changed since the player's last tick
    changed,    \* the weapon has been changed (once in a behavior)
    events,     \* changes of the world so far
    phase       \* where the frame is
Phases == {"frame", "kept", "player", "slots", "world"}
shotVars == <<weapon, arena, holding, moved, changed, events, phase>>

ShotsInit ==
    /\ weapon \in Weapons \cup {"buster"}
    /\ \E kind \in IF weapon = "well" THEN Kinds ELSE SmallKinds :
          arena = IF weapon \in Holders
                  THEN [EmptyArena EXCEPT !.enemies = [e \in Foes |-> kind]] ELSE EmptyArena
    /\ holding = FALSE /\ moved = FALSE /\ changed = FALSE
    /\ phase = "player" /\ events = 0

-----------------------------------------------------------------------------
(* The start of a frame *)

Stops(g) == {s \in Slots : Is(g, s, {"time"}) /\ ~Fresh(g, s)}

\* A time stop ages by display frames: it keeps every frame of its onset back
\* and then every other one.  Out of play, dead or in a new stage it ends.
FrameTick ==
    /\ phase = "frame"
    /\ LET s == Least(Stops(arena))
           age == arena.shots[s].clock
       IN  \/ /\ arena' = Retired(arena, s) /\ phase' = "player"
           \/ /\ ~moved
              /\ age + 1 < TimeLife
              /\ arena' = Wound(arena, s, "time", age + 1)
              /\ phase' = IF age < TimeOnset \/ (age + 1) % 2 = 1 THEN "kept" ELSE "player"
    /\ UNCHANGED <<weapon, holding, moved, changed, events>>

\* A frame that is kept back changes nothing else.
FrameKept == phase = "kept" /\ phase' = "frame" /\ UNCHANGED <<weapon, arena, holding, moved, changed, events>>

\* The menu changes the weapon whatever is in the air.
MenuRead ==
    /\ phase \in {"frame", "player"} /\ ~changed
    /\ weapon' \in IF weapon = "buster" THEN Weapons ELSE {"buster"}
    /\ arena' = CancelShots(arena)
    /\ changed' = TRUE /\ phase' = "player"
    /\ UNCHANGED <<holding, moved, events>>

\* The shoulder buttons change it only with no shot in the air; a bubble
\* shield does not count.
CycleWeapon ==
    /\ phase = "player" /\ ~changed
    /\ arena.count = 0 \/ \E s \in Slots : weapon = "bubble" /\ arena.shots[s].charged
    /\ weapon # "buster" /\ weapon' = "buster"
    /\ arena' = CancelShots(arena)
    /\ changed' = TRUE
    /\ UNCHANGED <<holding, moved, events, phase>>

Aged(g) == [g EXCEPT !.shots = [s \in Slots |->
              IF @[s].age = "born" THEN [@[s] EXCEPT !.age = "old"] ELSE @[s]]]

\* Silk gathers while fire is held at full charge, if none is charged yet.
SilkPlayerTick(g, held) ==
    {g} \cup IF weapon = "silk" /\ held /\ (\A s \in Slots : ~g.shots[s].charged)
             THEN {SilkCreatePieces(g, "gathered")} ELSE {}

\* Shots the guest allows in the air; the pool may be smaller.
Limit ==
    CASE weapon \in {"mine", "bubble", "bomb", "thunder"} -> 8
      [] weapon = "crystal" -> 4
      [] weapon \in {"fang", "buster"} -> 3
      [] weapon \in {"burner", "silk", "well"} -> 1
      [] OTHER -> 2

\* What keeps the fire button from the guest: a shield, a blade or a drill on
\* the arm, the cursors, silk in hand and the bodies that hold the player take
\* any shot; the ray's burst and a turning triangle only the plain one.
Suppressed(g, charged) ==
    \/ \E s \in Slots : /\ weapon \in {"bubble", "blade", "fang"}
                        /\ g.shots[s].charged
    \/ \E s \in Slots : Is(g, s, {"iceForm", "shield", "dash", "gathered", "body"} \cup Bodies \cup CursorForms)
    \/ ~charged /\ \E s \in Slots : Is(g, s, {"muzzle"} \cup Turning)

\* The guest fires or not; a shot takes the lowest free slot.
SelectShot(g) ==
    {g} \cup
    IF g.count >= Limit \/ FreeSlots(g) = {} THEN {}
    ELSE LET s == Least(FreeSlots(g))
             imported == weapon # "buster"
         IN  {[g EXCEPT !.actors[s] = IF imported THEN "owned" ELSE "native",
                        !.count = @ + 1,
                        !.shots[s] = IF imported THEN NewShot(charged) ELSE @] :
              charged \in {c \in BOOLEAN : ~Suppressed(g, c)}}

PlayerTick ==
    /\ phase = "player"
    /\ holding' \in IF weapon = "silk" \/ CursorsOf(arena) # {} THEN BOOLEAN ELSE {FALSE}
    /\ LET g == EffectsTicked(Aged(IF moved THEN CancelShots(arena) ELSE arena))
       IN  arena' \in UNION {SelectShot(h) : h \in SilkPlayerTick(g, holding')}
    /\ moved' = FALSE /\ phase' = "slots"
    /\ UNCHANGED <<weapon, changed, events>>

-----------------------------------------------------------------------------
(* The slots, in order *)

\* A slot that is not the host's own only loses its record.
Ticked(g, s, seen) ==
    IF g.actors[s] # "owned" THEN {[g EXCEPT !.shots[s] = NoShot]}
    ELSE IF Is(g, s, {"none"}) THEN {Retired(g, s)}
    ELSE
    CASE weapon = "bomb" -> ParasiticTick(g, s, holding, seen)
      [] weapon = "well" -> GravityTick(g, s, seen)
      [] weapon = "crystal" -> CrystalTick(g, s)
      [] weapon = "bubble" -> BubbleTick(g, s)
      [] weapon = "silk" -> SilkTick(g, s, holding)
      [] weapon = "chain" -> ChainTick(g, s)
      [] weapon = "mine" -> MagnetTick(g, s)
      [] weapon = "burner" -> SpeedTick(g, s)
      [] weapon = "wheel" -> WheelTick(g, s)
      [] weapon = "slicer" -> SonicTick(g, s)
      [] weapon = "acid" -> AcidTick(g, s)
      [] weapon = "ray" -> RayTick(g, s)
      [] weapon = "frost" -> FrostTick(g, s)
      [] weapon = "fang" -> FangTick(g, s)
      [] weapon = "thunder" -> TriadTick(g, s)
      [] weapon = "blade" -> BladeTick(g, s)

\* What the slots in view of the enemies seen become, one after the other.
SlotTicks(seen) ==
    LET Slot(arenas, s) == UNION {Ticked(g, s, seen) : g \in arenas}
    IN  Through(Slot, {arena}, SlotCount)

\* Nothing runs between the slots of a frame; all enemies are in view, or none.
ProjectileTick ==
    /\ phase = "slots"
    /\ \E seen \in IF weapon \in {"bomb", "well"} THEN {{}, Foes} ELSE {{}} : arena' \in SlotTicks(seen)
    /\ phase' = "world" /\ holding' = FALSE
    /\ UNCHANGED <<weapon, moved, changed, events>>

-----------------------------------------------------------------------------
(* The world *)

Contact(g, e, s) ==
    /\ g.enemies[e] # NoFoe /\ ~Held(g, e)
    /\ Is(g, s, {"crystal", "bomb"})

\* The enemy a plain crystal or bomb touches.
Hit == \E e \in Foes, s \in Slots :
    /\ Contact(arena, e, s)
    /\ arena' = IF weapon = "crystal" THEN CrystalContact(arena, e, s) ELSE ParasiticContact(arena, e, s)

\* Whatever the guest does with a slot of its enemies: one is allocated, dies
\* or is removed though it is held, or is gone and another takes its slot.
EnemyChange == \E e \in Foes :
    /\ weapon \in Holders
    /\ \E kind \in Kinds \cup {NoFoe} : arena' = [arena EXCEPT !.enemies[e] = kind]

\* The partner's own shots hold under the same rule.
PartnerHolds == \E e \in Foes :
    /\ weapon \in Holders
    /\ arena' = [arena EXCEPT !.partner =
                    IF e \in @ THEN @ \ {e}
                    ELSE IF arena.enemies[e] # NoFoe /\ ~Held(arena, e) THEN @ \cup {e} ELSE @]

\* A pickup appears, is collected, or is followed by another in its slot.
ItemChange ==
    /\ weapon = "chain"
    /\ arena' \in {[arena EXCEPT !.item = i] :
                    i \in {NoItem} \cup [kind : {"health", "energy"}, taken : {FALSE}]}

NativeShotEnds == \E s \in Slots :
    /\ arena.actors[s] = "native"
    /\ arena' = [arena EXCEPT !.actors[s] = "free", !.count = @ - 1]

\* The player falls, or a new stage has other enemies and empty slots; the
\* records stay until the player's next tick.
PlayEnds ==
    /\ arena' \in {arena, [arena EXCEPT !.actors = EmptyArena.actors, !.count = 0,
                                        !.enemies = EmptyArena.enemies, !.item = NoItem]}
    /\ moved' = TRUE

World ==
    /\ phase = "world"
    /\ \/ UNCHANGED <<arena, moved, events>>
       \/ (Hit \/ ItemChange \/ NativeShotEnds) /\ UNCHANGED <<moved, events>>
       \/ /\ events < MaxEvents /\ events' = events + 1
          /\ \/ (EnemyChange \/ PartnerHolds) /\ UNCHANGED moved
             \/ PlayEnds
    /\ phase' = IF Stops(arena') = {} THEN "player" ELSE "frame"
    /\ UNCHANGED <<weapon, holding, changed>>

ShotsNext == FrameTick \/ FrameKept \/ MenuRead \/ CycleWeapon \/ PlayerTick \/ ProjectileTick \/ World

\* A frame goes on to its next part, and to the next frame.
FrameGoesOn == phase' \in Phases
ShotsSpec == ShotsInit /\ [][ShotsNext]_shotVars /\ WF_phase(FrameGoesOn)

-----------------------------------------------------------------------------
(* Properties *)

\* No enemy is held twice: by two crystals, bombs or victims of the player, or
\* by the player and the partner; and the cursors of a charged bomb have each
\* an enemy of their own.
HeldApart ==
    /\ \A e \in Foes :
          /\ OwnHolders(arena, e) <= 1
          /\ e \in arena.partner => OwnHolders(arena, e) = 0
    /\ \A s, t \in Slots :
          /\ s # t /\ Is(arena, s, Locking) /\ Is(arena, t, Locking)
          => arena.shots[s].target # arena.shots[t].target

\* At the end of a frame the guest's count is the number of its occupied
\* slots, and the host has a record for just the slots that are its own; the
\* bubbles of the fire wave are two at most to a shot, the bees one to a busy
\* cursor, and a pickup marked as carried is carried.
ShotsAccounted ==
    (phase \in {"frame", "player"} /\ ~moved) =>
    /\ arena.count = SlotCount - Cardinality(FreeSlots(arena))
    /\ \A s \in Slots : Is(arena, s, {"none"}) <=> arena.actors[s] # "owned"
    /\ \A s \in Slots : Cardinality({i \in Slots : Is(arena, i, {"eddy"}) /\ arena.shots[i].target = s}) <= 2
    /\ \A s \in Slots : Is(arena, s, {"bee"}) =>
          /\ \E c \in CursorAt(arena, arena.shots[s].quad) : Is(arena, c, {"busy"})
          /\ \A i \in Slots \ {s} : Is(arena, i, {"bee"}) => arena.shots[i].quad # arena.shots[s].quad
    /\ arena.item.taken => \E s \in Slots : Is(arena, s, {"carry"})

\* No hold lasts for ever: an enemy with a bomb or in the well gets free or
\* dies, the player whom a charged well keeps still moves again, and a time
\* stop ends.  (An enemy in a crystal may stay there.)
HoldsEnd ==
    /\ \A e \in Foes : []<>~Moved(arena, e)
    /\ []<>(Body(arena) = {})
    /\ []<>(Stops(arena) = {})
===============================================================================

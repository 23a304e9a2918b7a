----------------------------- MODULE CoopTeam_proof -----------------------------
(***************************************************************************)
(* What CoopTeam promises for every choice of its constants: the types, the *)
(* death of the whole team (TeamMode), the safety of a learner, who drives, *)
(* and, without the hazards of README section 4, who is left in a stage.    *)
(***************************************************************************)
EXTENDS CoopTeam, FiniteSetTheorems, TLAPS

USE CoopAssumption DEF Seats, None

\* The one pilot of an occupied armor is a seat.
LEMMA PilotIsSeat ==
    ASSUME Cardinality(Riders) = 1
    PROVE  (CHOOSE s \in Riders : TRUE) \in Seats
<1>1. Riders # {} BY FS_EmptySet
<1>2. Riders \subseteq Seats BY DEF Riders
<1> QED BY <1>1, <1>2

\* A driver of a capsule scene is a seat.
LEMMA DriversAreSeats == TypeOK => Drivers \subseteq Seats
BY DEF TypeOK, Drivers, CapsuleDriver

\* teleport_tick leaves a phase of the teleport.
LEMMA TickedPhase ==
    ASSUME TypeOK, NEW s \in Seats
    PROVE  Ticked(s) \subseteq {0, 1, 2, 4, 5}
BY DEF TypeOK, Ticked
USE DEF bodies, deaths, roles, scene, roster, select, buttons, world, place, Host,
        Other, InScene, IsLearner, NoScene, NoHolds, Rearm, NoHold, Partner, RESCUE

\* A scene that starts has a driver and its flags.
LEMMA BeamTypes ==
    ASSUME TypeOK, NEW d \in Seats, NEW flags \in SUBSET {"LIVE", "WITHDRAW"}, Beam(d, flags)
    PROVE  /\ swap' \in [Seats -> {0, 1, 2, 4, 5}]
           /\ sceneOwner' \in Seats \cup {None} /\ scenePhase' \in 0..3
           /\ sceneFlags' \subseteq {"LIVE", "WITHDRAW"}
  BY DEF TypeOK, Beam

LEMMA BeginSceneTypes ==
    ASSUME TypeOK, NEW d \in Seats, BeginScene(d)
    PROVE  /\ swap' \in [Seats -> {0, 1, 2, 4, 5}]
           /\ sceneOwner' \in Seats \cup {None} /\ scenePhase' \in 0..3
           /\ sceneFlags' \subseteq {"LIVE", "WITHDRAW"}
<1>1. CASE Beam(d, {})
  BY <1>1, BeamTypes
<1>2. CASE UNCHANGED <<swap, scene>>
  BY <1>2 DEF TypeOK
<1> QED
  BY <1>1, <1>2 DEF BeginScene

\* A landing puts a seat back on its feet.
LEMMA PlaceOtherTypes ==
    ASSUME TypeOK, NEW s \in Seats, NEW health \in 0..MaxHp, PlaceOther(s, health)
    PROVE  /\ status' \in [Seats -> {"absent", "alive", "fallen"}]
           /\ hp' \in [Seats -> 0..MaxHp]
           /\ act' \in [Seats -> {"free", "armor", "hit", "dying", "gone"}]
           /\ swap' \in [Seats -> {0, 1, 2, 4, 5}]
           /\ held' \in Seats \cup {None}
           /\ moved' \in BOOLEAN
<1>1. moved' \in BOOLEAN
  BY Zenon DEF PlaceOther
<1>2. held' \in Seats \cup {None}
  BY Zenon DEF PlaceOther, TypeOK
<1> QED
  BY <1>1, <1>2 DEF TypeOK, PlaceOther

LEMMA FrameTickTypes ==
    ASSUME TypeOK, FrameTick
    PROVE  TypeOK'
<1>1. CASE TickParked
  BY <1>1 DEF TypeOK, TickParked
<1>2. CASE TickAway
  BY <1>2 DEF TypeOK, TickAway
<1>3. CASE TickEntry
  BY <1>3 DEF TypeOK, TickEntry
<1>4. CASE TickPlay
  BY <1>4 DEF TypeOK, TickPlay
<1>5. CASE TickOwner
  <2> DEFINE rider == Cardinality(Riders) = 1
             pilot == IF rider THEN CHOOSE s \in Riders : TRUE ELSE anchor
             shown == IF rider THEN pilot ELSE current
             driver == IF Survives(pilot, shown) THEN Other(pilot) ELSE pilot
  <2>1. pilot \in Seats /\ shown \in Seats
    BY PilotIsSeat DEF TypeOK
  <2> HIDE DEF pilot, shown
  <2>2. driver \in Seats
    BY <2>1
  <2>3. /\ anchor' = driver
        /\ current' = IF Survives(pilot, shown) \/ InScene THEN driver ELSE shown
        /\ solo' = IF \A s \in Seats : status[s] = "alive" /\ hp[s] = 0
                   THEN {Other(driver)} ELSE solo
        /\ pc' \in {"guest", "learner"}
        /\ UNCHANGED <<bodies, respawn, scene, roster, select, buttons, away, menuOwner, world,
                      place>>
    BY <1>5 DEF TickOwner, pilot, shown
  <2> HIDE DEF driver
  <2>4. solo' \subseteq Seats
    BY <2>2, <2>3 DEF TypeOK
  <2> QED
    BY <2>1, <2>2, <2>3, <2>4 DEF TypeOK
<1>6. CASE TickLearner
  <2>1. /\ pc' = "scene"
        /\ UNCHANGED <<status, act, deaths, roster, select, buttons, menuOwner, world, place>>
        /\ hp' = [hp EXCEPT ![1] = MaxHp] \/ hp' = hp
    BY <1>6 DEF TickLearner
  <2>2. \/ UNCHANGED <<swap, roles, scene, away>>
        \/ /\ anchor' \in {0, anchor} /\ current' = anchor'
           /\ away' \in 0..RESCUE
           /\ UNCHANGED <<swap, scene>> \/ Beam(anchor', {"LIVE"})
    BY <1>6 DEF TickLearner, TypeOK
  <2>3. CASE UNCHANGED <<swap, roles, scene, away>>
    BY <2>1, <2>3 DEF TypeOK
  <2>4. CASE /\ anchor' \in {0, anchor} /\ current' = anchor'
             /\ away' \in 0..RESCUE
             /\ UNCHANGED <<swap, scene>> \/ Beam(anchor', {"LIVE"})
    <3>1. anchor' \in Seats
      BY <2>4 DEF TypeOK
    <3>2. /\ swap' \in [Seats -> {0, 1, 2, 4, 5}]
        /\ sceneOwner' \in Seats \cup {None} /\ scenePhase' \in 0..3
        /\ sceneFlags' \subseteq {"LIVE", "WITHDRAW"}
      <4>1. CASE UNCHANGED <<swap, scene>>
        BY <4>1 DEF TypeOK
      <4>2. CASE Beam(anchor', {"LIVE"})
        BY <3>1, <4>2, BeamTypes
      <4> QED
        BY <2>4, <4>1, <4>2
    <3> QED
      BY <2>1, <2>4, <3>1, <3>2 DEF TypeOK
  <2> QED
    BY <2>2, <2>3, <2>4
<1>7. CASE SceneStarts
  BY <1>7, BeginSceneTypes DEF TypeOK, SceneStarts
<1>8. CASE CapsuleTaken
  BY <1>8 DEF TypeOK, CapsuleTaken, Drivers, CapsuleDriver
<1>9. CASE LeftBehind
  <2>1. /\ pc' = "transport"
        /\ UNCHANGED <<status, act, deaths, roster, select, buttons, menuOwner, world, place>>
        /\ hp' = [hp EXCEPT ![1] = MaxHp] \/ hp' = hp
        /\ away' = 0 \/ away' = away
    BY <1>9 DEF LeftBehind
  <2>2. PICK d \in Seats : /\ anchor' \in {d, Other(d)} /\ current' = anchor'
                            /\ \/ \E flags \in {{"LIVE"}, {}} : Beam(anchor', flags)
                               \/ UNCHANGED <<swap, scene>>
    <3>1. PICK d \in Drivers, low \in SUBSET Seats, far \in BOOLEAN :
            LET lost == ~Learner /\ d \in low /\ Other(d) \notin low
                driver == IF lost THEN Other(d) ELSE d
                leaves == lost \/ Other(d) \in low \/ far
            IN  /\ anchor' = driver /\ current' = driver
                /\ IF leaves /\ ~IsLearner(driver)
                   THEN Beam(driver, IF Learner THEN {"LIVE"} ELSE {})
                   ELSE UNCHANGED <<swap, scene>>
      BY <1>9 DEF LeftBehind
    <3>2. d \in Seats
      BY DriversAreSeats
    <3> QED
      BY <3>1, <3>2
  <2>3. anchor' \in Seats
    BY <2>2
  <2>4. /\ swap' \in [Seats -> {0, 1, 2, 4, 5}]
        /\ sceneOwner' \in Seats \cup {None} /\ scenePhase' \in 0..3
        /\ sceneFlags' \subseteq {"LIVE", "WITHDRAW"}
    <3>1. CASE UNCHANGED <<swap, scene>>
      BY <3>1 DEF TypeOK
    <3>2. CASE \E flags \in {{"LIVE"}, {}} : Beam(anchor', flags)
      BY <2>3, <3>2, BeamTypes
    <3> QED
      BY <2>2, <3>1, <3>2
  <2> QED
    BY <2>1, <2>2, <2>3, <2>4 DEF TypeOK
<1>10. CASE SceneStays
  BY <1>10 DEF TypeOK, SceneStays
<1>11. CASE NoTransport
  BY <1>11 DEF TypeOK, NoTransport
<1>12. CASE TransportPaused
  BY <1>12 DEF TypeOK, TransportPaused
<1>13. CASE TransportTick
  <2>1. PICK next \in Ticked(Partner) :
          /\ swap' = [swap EXCEPT ![Partner] = next]
          /\ \/ UNCHANGED <<status, scene, select>>
             \/ NoScene /\ Rearm /\ UNCHANGED status
             \/ NoScene /\ status' = [status EXCEPT ![Partner] = "absent"] /\ UNCHANGED select
             \/ scenePhase' = 2 /\ UNCHANGED <<status, sceneOwner, sceneFlags, select>>
    BY <1>13 DEF TransportTick
  <2>2. next \in {0, 1, 2, 4, 5} /\ Partner \in Seats
    BY <2>1, TickedPhase DEF TypeOK
  <2>3. /\ pc' \in {"seat0", "poll"}
        /\ UNCHANGED <<hp, act, deaths, roles, roster, buttons, away, menuOwner, world, place>>
    BY <1>13 DEF TransportTick
  <2>4. /\ swap' \in [Seats -> {0, 1, 2, 4, 5}]
        /\ status' \in [Seats -> {"absent", "alive", "fallen"}]
    BY <2>1, <2>2 DEF TypeOK
  <2>5. /\ sceneOwner' \in Seats \cup {None} /\ scenePhase' \in 0..3
        /\ sceneFlags' \subseteq {"LIVE", "WITHDRAW"}
    <3>1. /\ sceneOwner' \in {sceneOwner, None} /\ scenePhase' \in {scenePhase, 0, 2}
          /\ sceneFlags' \in {sceneFlags, {}}
      BY <2>1
    <3> QED
      BY <3>1 DEF TypeOK
  <2>6. armed' \subseteq Seats /\ hold' \in [Seats -> 0..HoldFrames]
    <3>1. armed' \in {armed, {}} /\ hold' \in {hold, [s \in Seats |-> 0]}
      BY <2>1
    <3> QED
      BY <3>1 DEF TypeOK
  <2> QED
    BY <2>3, <2>4, <2>5, <2>6 DEF TypeOK
<1>14. CASE ReturnWaits
  BY <1>14 DEF TypeOK, ReturnWaits
<1>15. CASE PartnerReturns
  <2>1. PICK health \in 0..MaxHp : PlaceOther(Partner, health)
    <3>1. MaxHp \in 0..MaxHp /\ hp[Partner] \in 0..MaxHp
      BY DEF TypeOK
    <3> QED
      BY <1>15, <3>1 DEF PartnerReturns
  <2>2. /\ scenePhase' = 3 /\ pc' \in {"weapons", "poll"}
        /\ UNCHANGED <<deaths, roles, sceneOwner, sceneFlags, roster, select, buttons, away,
                      menuOwner, stage, script, boss, refill, occupied, lives, pass>>
    BY <1>15 DEF PartnerReturns
  <2>3. Partner \in Seats
    BY DEF TypeOK
  <2>4. /\ status' \in [Seats -> {"absent", "alive", "fallen"}]
        /\ hp' \in [Seats -> 0..MaxHp]
        /\ act' \in [Seats -> {"free", "armor", "hit", "dying", "gone"}]
        /\ swap' \in [Seats -> {0, 1, 2, 4, 5}]
        /\ held' \in Seats \cup {None}
        /\ moved' \in BOOLEAN
    BY <2>1, <2>3, PlaceOtherTypes
  <2> QED
    BY <2>2, <2>4 DEF TypeOK
<1>16. CASE JoinLeaves
  BY <1>16 DEF TypeOK, JoinLeaves
<1>17. CASE JoinTransition
  BY <1>17 DEF TypeOK, JoinTransition, Ticked, Moving
<1>18. CASE JoinClosed
  BY <1>18 DEF TypeOK, JoinClosed
<1>19. CASE WeaponsTick
  BY <1>19 DEF TypeOK, WeaponsTick
<1>20. ASSUME NEW s \in Seats, FallenWaits(s) PROVE TypeOK'
  BY <1>20 DEF TypeOK, FallenWaits, Served, Armed, Asked, NextSeat
<1>21. ASSUME NEW s \in Seats, FallenReturns(s) PROVE TypeOK'
  <2>1. PlaceOther(s, MaxHp) /\ MaxHp \in 0..MaxHp
    BY <1>21 DEF FallenReturns
  <2>2. /\ lives > 0 /\ lives' = lives - 1 /\ respawn' = Asked(s) \ {s}
        /\ current' = Other(s) /\ Rearm /\ pc' = "poll"
        /\ UNCHANGED <<solo, anchor, scene, roster, buttons, away, menuOwner, stage, script, boss,
                      refill, occupied, pass>>
    BY <1>21 DEF FallenReturns
  <2>3. /\ status' \in [Seats -> {"absent", "alive", "fallen"}]
        /\ hp' \in [Seats -> 0..MaxHp]
        /\ act' \in [Seats -> {"free", "armor", "hit", "dying", "gone"}]
        /\ swap' \in [Seats -> {0, 1, 2, 4, 5}]
        /\ held' \in Seats \cup {None}
        /\ moved' \in BOOLEAN
    BY <2>1, PlaceOtherTypes
  <2> QED
    BY <2>2, <2>3 DEF TypeOK, Asked
<1>22. ASSUME NEW s \in Seats, SeatAlone(s) PROVE TypeOK'
  BY <1>22 DEF TypeOK, SeatAlone, Served, Armed, NextSeat
<1>23. ASSUME NEW s \in Seats, SeatHolds(s) PROVE TypeOK'
  BY <1>23 DEF TypeOK, SeatHolds, Served, Armed, NextSeat
<1>24. ASSUME NEW s \in Seats, Withdraws(s) PROVE TypeOK'
  <2>1. /\ NoHold(s) /\ pc' \in {"weapons", "poll"}
        /\ UNCHANGED <<status, act, deaths, roster, armed, buttons, menuOwner, world, place>>
    BY <1>24 DEF Withdraws
  <2>2. CASE UNCHANGED <<hp, swap, scene, away, roles>>
    BY <2>1, <2>2 DEF TypeOK
  <2>3. CASE /\ Beam(anchor, {"LIVE", "WITHDRAW"})
             /\ hp' = [hp EXCEPT ![1] = MaxHp] /\ away' = 0 /\ UNCHANGED roles
    <3>1. anchor \in Seats
      BY DEF TypeOK
    <3>2. /\ swap' \in [Seats -> {0, 1, 2, 4, 5}]
        /\ sceneOwner' \in Seats \cup {None} /\ scenePhase' \in 0..3
        /\ sceneFlags' \subseteq {"LIVE", "WITHDRAW"}
      BY <2>3, <3>1, BeamTypes
    <3> QED
      BY <2>1, <2>3, <3>2 DEF TypeOK
  <2>4. CASE /\ anchor' = Other(s) /\ current' = Other(s)
             /\ swap' = [swap EXCEPT ![s] = 1] /\ UNCHANGED <<hp, scene, away>>
    BY <2>1, <2>4 DEF TypeOK
  <2> QED
    BY <1>24, <2>2, <2>3, <2>4 DEF Withdraws
<1>25. ASSUME NEW s \in Seats, JoinWaits(s) PROVE TypeOK'
  BY <1>25 DEF TypeOK, JoinWaits, Served, Armed, NextSeat
<1>26. ASSUME NEW s \in Seats, Joins(s) PROVE TypeOK'
  <2>1. PICK health \in 0..MaxHp : PlaceOther(s, health)
    <3>1. MaxHp \in 0..MaxHp /\ hp[s] \in 0..MaxHp
      BY DEF TypeOK
    <3> QED
      BY <1>26, <3>1 DEF Joins
  <2>2. enrolled' \in BOOLEAN
    BY <1>26, Zenon DEF Joins
  <2>3. /\ current' = Other(s) /\ pending' = 0 /\ Rearm
        /\ UNCHANGED <<deaths, anchor, buttons, menuOwner, stage, script, boss, refill, occupied,
                      lives, pass>>
    BY <1>26 DEF Joins
  <2>4. \/ /\ sceneOwner' = anchor /\ scenePhase' = 3 /\ sceneFlags' = {"LIVE"}
           /\ away' = 0 /\ pc' = "weapons"
        \/ pc' = "poll" /\ UNCHANGED <<scene, away>>
    BY <1>26 DEF Joins
  <2>5. /\ status' \in [Seats -> {"absent", "alive", "fallen"}]
        /\ hp' \in [Seats -> 0..MaxHp]
        /\ act' \in [Seats -> {"free", "armor", "hit", "dying", "gone"}]
        /\ swap' \in [Seats -> {0, 1, 2, 4, 5}]
        /\ held' \in Seats \cup {None}
        /\ moved' \in BOOLEAN
    BY <2>1, PlaceOtherTypes
  <2>6. /\ sceneOwner' \in Seats \cup {None} /\ scenePhase' \in 0..3
        /\ sceneFlags' \subseteq {"LIVE", "WITHDRAW"}
        /\ away' \in 0..RESCUE /\ pc' \in {"weapons", "poll"}
    <3>1. CASE /\ sceneOwner' = anchor /\ scenePhase' = 3 /\ sceneFlags' = {"LIVE"}
               /\ away' = 0 /\ pc' = "weapons"
      BY <3>1 DEF TypeOK
    <3>2. CASE pc' = "poll" /\ UNCHANGED <<scene, away>>
      BY <3>2 DEF TypeOK
    <3> QED
      BY <2>4, <3>1, <3>2
  <2>7. armed' \subseteq Seats /\ hold' \in [Seats -> 0..HoldFrames] /\ current' \in Seats
    BY <2>3 DEF TypeOK
  <2> QED
    BY <2>2, <2>3, <2>5, <2>6, <2>7 DEF TypeOK
<1> QED
  BY <1>1, <1>2, <1>3, <1>4, <1>5, <1>6, <1>7, <1>8, <1>9, <1>10, <1>11, <1>12, <1>13, <1>14,
     <1>15, <1>16, <1>17, <1>18, <1>19, <1>20, <1>21, <1>22, <1>23, <1>24, <1>25, <1>26 DEF
     FrameTick

LEMMA ControllerTypes ==
    ASSUME TypeOK, Controller
    PROVE  TypeOK'
<1>1. CASE GuestStarts
  BY <1>1 DEF TypeOK, GuestStarts
<1>2. CASE BodyStays
  BY <1>2 DEF TypeOK, BodyStays, InController
<1>3. CASE TerrainHurts
  BY <1>3 DEF TypeOK, TerrainHurts, InController
<1>4. CASE DeathStarts
  <2>1. refill' \in BOOLEAN
    BY <1>4, Zenon DEF DeathStarts
  <2>2. /\ UNCHANGED <<status, swap, respawn, roles, scene, roster, select, buttons, menuOwner,
                      stage, script, held, boss, occupied, lives, place>>
        /\ pc' = "return"
    BY <1>4 DEF DeathStarts, InController
  <2>3. hp' \in [Seats -> 0..MaxHp]
    BY <1>4 DEF DeathStarts, TypeOK
  <2>4. act' \in [Seats -> {"free", "armor", "hit", "dying", "gone"}]
    BY <1>4 DEF DeathStarts, TypeOK
  <2>5. away' \in 0..RESCUE
    BY <1>4 DEF DeathStarts, TypeOK
  <2>6. solo' \subseteq Seats
    <3>1. solo' \in {solo, solo \cup {current}, solo \ {current}}
      BY <1>4, Zenon DEF DeathStarts
    <3> QED
      BY <3>1 DEF TypeOK
  <2> QED
    BY <2>1, <2>2, <2>3, <2>4, <2>5, <2>6 DEF TypeOK
<1>5. CASE DeathEnds
  BY <1>5 DEF TypeOK, DeathEnds, InController
<1>6. CASE SecondPass
  BY <1>6 DEF TypeOK, SecondPass
<1>7. CASE ControllerReturns
  BY <1>7 DEF TypeOK, ControllerReturns
<1> QED
  BY <1>1, <1>2, <1>3, <1>4, <1>5, <1>6, <1>7 DEF Controller

LEMMA WorldTypes ==
    ASSUME TypeOK, WorldMoves
    PROVE  TypeOK'
<1>1. CASE Contact
  BY <1>1 DEF TypeOK, Contact, Hit, Exposed, Touched
<1>2. CASE Crushed
  BY <1>2 DEF TypeOK, Crushed, Hit, Exposed, Touched
<1>3. CASE Drained
  BY <1>3 DEF TypeOK, Drained, Exposed
<1>4. CASE ArmorLeft
  <2>1. occupied' \in BOOLEAN
    BY <1>4, Zenon DEF ArmorLeft, TypeOK
  <2>2. /\ UNCHANGED <<status, hp, swap, deaths, roles, Host, away, stage, script, held, boss,
                     refill, lives>>
        /\ act' = [act EXCEPT ![current] = "free"] \/ act' = act
    BY <1>4, Zenon DEF ArmorLeft
  <2> QED
    BY <2>1, <2>2 DEF TypeOK
<1>5. CASE ScriptStarts
  BY <1>5 DEF TypeOK, ScriptStarts
<1>6. CASE HoldStarts
  BY <1>6 DEF TypeOK, HoldStarts
<1>7. CASE ScriptEnds
  BY <1>7 DEF TypeOK, ScriptEnds
<1>8. CASE Farewell
  BY <1>8, BeginSceneTypes DEF TypeOK, Farewell
<1>9. CASE BossChanges
  BY <1>9 DEF TypeOK, BossChanges
<1>10. CASE OneUp
  BY <1>10 DEF TypeOK, OneUp
<1>11. CASE RefillStarts
  BY <1>11 DEF TypeOK, RefillStarts
<1>12. CASE RefillEnds
  <2>1. refill' \in BOOLEAN
    BY <1>12, Zenon DEF RefillEnds
  <2>2. UNCHANGED <<bodies, deaths, roles, Host, away, stage, script, held, boss, occupied, lives>>
    BY <1>12, Zenon DEF RefillEnds
  <2> QED
    BY <2>1, <2>2 DEF TypeOK
<1>13. CASE MenuCloses
  BY <1>13 DEF TypeOK, MenuCloses
<1>14. CASE StageClears
  <2>1. boss' \in BOOLEAN
    BY <1>14, Zenon DEF StageClears, TypeOK
  <2>2. /\ UNCHANGED <<bodies, deaths, roles, Host, away, script, held, refill, occupied, lives>>
        /\ stage' = "clear"
    BY <1>14, Zenon DEF StageClears
  <2> QED
    BY <2>1, <2>2 DEF TypeOK
<1>15. CASE StageLeaves
  BY <1>15 DEF TypeOK, StageLeaves
<1>16. CASE TeamRestarts
  <2>1. boss' \in BOOLEAN /\ refill' \in BOOLEAN /\ occupied' \in BOOLEAN
    BY <1>16, Zenon DEF TeamRestarts, TypeOK
  <2>2. /\ current' = 0 /\ anchor' = 0 /\ pending' = 1 /\ NoScene /\ away' = 0
        /\ status' = [status EXCEPT ![1] = "absent"] /\ swap' = [swap EXCEPT ![0] = 0]
        /\ lives' = IF lives = 0 THEN MaxLives ELSE lives - 1
        /\ stage' = "away" /\ script' = "none" /\ held' = None /\ pc' = "poll"
        /\ UNCHANGED <<hp, act, deaths, enrolled, select, buttons, menuOwner, place>>
    BY <1>16, Zenon DEF TeamRestarts
  <2> QED
    BY <2>1, <2>2 DEF TypeOK
<1>17. CASE StageReady
  <2>1. occupied' \in BOOLEAN
    BY <1>17, Zenon DEF StageReady, TypeOK
  <2>2. /\ stage' = "play" /\ script' \in {"none", "wait"} /\ held' = None
        /\ hp' = [hp EXCEPT ![0] = MaxHp] /\ act' = [act EXCEPT ![0] = "free"]
        /\ UNCHANGED <<status, swap, deaths, roles, Host, away, boss, refill, lives>>
    BY <1>17, Zenon DEF StageReady
  <2> QED
    BY <2>1, <2>2 DEF TypeOK
<1>18. ASSUME NEW s \in Seats, Falls(s) PROVE TypeOK'
  BY <1>18 DEF TypeOK, Falls
<1>19. ASSUME NEW s \in Seats, Boards(s) PROVE TypeOK'
  BY <1>19 DEF TypeOK, Boards
<1>20. ASSUME NEW s \in Seats, NEW both, Enters(s, both) PROVE TypeOK'
  <2>1. /\ held' = s
        /\ UNCHANGED <<status, hp, act, deaths, roster, select, buttons, away, menuOwner, stage,
                      script, boss, refill, occupied, lives, pc, place>>
    BY <1>20 DEF Enters
  <2>2. CASE anchor' = s /\ current' = s /\ BeginScene(s)
    BY <2>1, <2>2, BeginSceneTypes DEF TypeOK
  <2>3. CASE UNCHANGED <<roles, swap, scene>>
    BY <2>1, <2>3 DEF TypeOK
  <2> QED
    BY <1>20, <2>2, <2>3 DEF Enters
<1>21. ASSUME NEW s \in Seats, MenuOpens(s) PROVE TypeOK'
  BY <1>21 DEF TypeOK, MenuOpens
<1> QED
  BY <1>1, <1>2, <1>3, <1>4, <1>5, <1>6, <1>7, <1>8, <1>9, <1>10, <1>11, <1>12, <1>13, <1>14,
     <1>15, <1>16, <1>17, <1>18, <1>19, <1>20, <1>21 DEF WorldMoves, EntersDoor, RidesLift

\* Every step of the host and of the guest keeps the types.
LEMMA TypesKept == TypeOK /\ [Next]_vars => TypeOK'
<1> SUFFICES ASSUME TypeOK, [Next]_vars PROVE TypeOK'
  OBVIOUS
<1>1. CASE Poll
  BY <1>1 DEF TypeOK, Poll
<1>2. CASE FrameTick
  BY <1>2, FrameTickTypes
<1>3. CASE Controller
  BY <1>3, ControllerTypes
<1>4. CASE WorldMoves
  BY <1>4, WorldTypes
<1>5. CASE EndFrame
  BY <1>5 DEF TypeOK, EndFrame
<1>6. CASE UNCHANGED vars
  BY <1>6 DEF TypeOK, vars
<1> QED
  BY <1>1, <1>2, <1>3, <1>4, <1>5, <1>6 DEF Next

\* A teleport of join_tick can only take a seat out of play.
LEMMA JoinTransitionAbsents ==
    ASSUME TypeOK, JoinTransition
    PROVE  \A s \in Seats : status'[s] \in {status[s], "absent"}
<1> DEFINE m == CHOOSE m \in Moving : \A n \in Moving : m <= n
<1>1. status' = status \/ status' = [status EXCEPT ![m] = "absent"]
  BY DEF JoinTransition
<1> HIDE DEF m
<1> QED
  BY <1>1 DEF TypeOK

LEMMA InitTypes == Init => TypeOK
<1> SUFFICES ASSUME Init PROVE TypeOK
  OBVIOUS
<1>1. /\ enrolled \in BOOLEAN /\ boss \in BOOLEAN /\ refill \in BOOLEAN
      /\ occupied \in BOOLEAN /\ moved \in BOOLEAN
  BY Zenon DEF Init
<1>2. /\ status \in [Seats -> {"absent", "alive", "fallen"}]
      /\ hp \in [Seats -> 0..MaxHp]
      /\ act \in [Seats -> {"free", "armor", "hit", "dying", "gone"}]
      /\ swap \in [Seats -> {0, 1, 2, 4, 5}]
      /\ hold \in [Seats -> 0..HoldFrames]
  BY DEF Init
<1>3. /\ solo = {} /\ respawn = {} /\ anchor = 0 /\ current = 0
      /\ sceneOwner = None /\ scenePhase = 0 /\ sceneFlags = {} /\ pending = 2 /\ away = 0
      /\ input = {} /\ pressed = {} /\ armed = {} /\ menuOwner = None
      /\ stage = "play" /\ script = "none" /\ held = None /\ lives = MaxLives
      /\ pc = "poll" /\ pass = 0
  BY Zenon DEF Init
<1> QED
  BY <1>1, <1>2, <1>3 DEF TypeOK

\* Every variable keeps its type: no counter, phase or role leaves its range.
THEOREM TypeCorrect == Spec => []TypeOK
BY InitTypes, TypesKept, PTL DEF Spec
--------------------------------------------------------------------------------
\* The stage is lost only when nobody who may drive lives.  A life that Select
\* buys or a partner who joins cannot come between: join_tick serves the second
\* seat only after it has found the stage in play for the first.
TeamInv == TeamMode /\ (pc = "seat1" => stage = "play")

LEMMA FrameTickTeam ==
    ASSUME TypeOK, TeamInv, FrameTick
    PROVE  TeamInv'
<1>1. CASE TickParked
  BY <1>1 DEF TypeOK, TeamInv, TeamMode, Living, TickParked
<1>2. CASE TickAway
  BY <1>2 DEF TypeOK, TeamInv, TeamMode, Living, TickAway
<1>3. CASE TickEntry
  BY <1>3 DEF TypeOK, TeamInv, TeamMode, Living, TickEntry, EntersStage
<1>4. CASE TickPlay
  BY <1>4 DEF TypeOK, TeamInv, TeamMode, Living, TickPlay
<1>5. CASE TickOwner
  BY <1>5 DEF TypeOK, TeamInv, TeamMode, Living, TickOwner
<1>6. CASE TickLearner
  <2>1. UNCHANGED <<status, stage>> /\ pc' = "scene"
    BY <1>6 DEF TickLearner
  <2>2. UNCHANGED hp \/ (Learner /\ hp' = [hp EXCEPT ![1] = MaxHp])
    BY <1>6 DEF TickLearner, LearnerIdle
  <2> QED
    BY <2>1, <2>2 DEF TypeOK, TeamInv, TeamMode, Living
<1>7. CASE SceneStarts
  BY <1>7 DEF TypeOK, TeamInv, TeamMode, Living, SceneStarts
<1>8. CASE CapsuleTaken
  BY <1>8 DEF TypeOK, TeamInv, TeamMode, Living, CapsuleTaken
<1>9. CASE LeftBehind
  BY <1>9 DEF TypeOK, TeamInv, TeamMode, Living, LeftBehind
<1>10. CASE SceneStays
  BY <1>10 DEF TypeOK, TeamInv, TeamMode, Living, SceneStays
<1>11. CASE NoTransport
  BY <1>11 DEF TypeOK, TeamInv, TeamMode, Living, NoTransport
<1>12. CASE TransportPaused
  BY <1>12 DEF TypeOK, TeamInv, TeamMode, Living, TransportPaused
<1>13. CASE TransportTick
  BY <1>13 DEF TypeOK, TeamInv, TeamMode, Living, TransportTick, Transporting
<1>14. CASE ReturnWaits
  BY <1>14 DEF TypeOK, TeamInv, TeamMode, Living, ReturnWaits
<1>15. CASE PartnerReturns
  BY <1>15 DEF TypeOK, TeamInv, TeamMode, Living, PartnerReturns, PlaceOther, MayReturn
<1>16. CASE JoinLeaves
  BY <1>16 DEF TypeOK, TeamInv, TeamMode, Living, JoinLeaves
<1>17. CASE JoinTransition
  <2>1. UNCHANGED <<hp, stage>> /\ pc' = "poll"
    BY <1>17 DEF JoinTransition
  <2> QED
    BY <1>17, <2>1, JoinTransitionAbsents DEF TypeOK, TeamInv, TeamMode, Living
<1>18. CASE JoinClosed
  BY <1>18 DEF TypeOK, TeamInv, TeamMode, Living, JoinClosed
<1>19. CASE WeaponsTick
  BY <1>19 DEF TypeOK, TeamInv, TeamMode, Living, WeaponsTick
<1>20. ASSUME NEW s \in Seats, FallenWaits(s) PROVE TeamInv'
  BY <1>20 DEF TypeOK, TeamInv, TeamMode, Living, FallenWaits, Serving, Served, SeatStep,
     NextSeat, MayJoin, Gameplay
<1>21. ASSUME NEW s \in Seats, FallenReturns(s) PROVE TeamInv'
  BY <1>21 DEF TypeOK, TeamInv, TeamMode, Living, FallenReturns, Serving, SeatStep,
     PlaceOther, MayJoin, Gameplay
<1>22. ASSUME NEW s \in Seats, SeatAlone(s) PROVE TeamInv'
  BY <1>22 DEF TypeOK, TeamInv, TeamMode, Living, SeatAlone, Serving, Served, SeatStep,
     NextSeat, MayJoin, Gameplay
<1>23. ASSUME NEW s \in Seats, SeatHolds(s) PROVE TeamInv'
  BY <1>23 DEF TypeOK, TeamInv, TeamMode, Living, SeatHolds, Serving, Served, SeatStep,
     NextSeat, MayJoin, Gameplay
<1>24. ASSUME NEW s \in Seats, Withdraws(s) PROVE TeamInv'
  BY <1>24 DEF TypeOK, TeamInv, TeamMode, Living, Withdraws, Beam
<1>25. ASSUME NEW s \in Seats, JoinWaits(s) PROVE TeamInv'
  BY <1>25 DEF TypeOK, TeamInv, TeamMode, Living, JoinWaits, Serving, Served, SeatStep,
     NextSeat, MayJoin, Gameplay
<1>26. ASSUME NEW s \in Seats, Joins(s) PROVE TeamInv'
  BY <1>26 DEF TypeOK, TeamInv, TeamMode, Living, Joins, Serving, SeatStep, PlaceOther,
     MayJoin, Gameplay
<1> QED
  BY <1>1, <1>2, <1>3, <1>4, <1>5, <1>6, <1>7, <1>8, <1>9, <1>10, <1>11, <1>12, <1>13, <1>14,
     <1>15, <1>16, <1>17, <1>18, <1>19, <1>20, <1>21, <1>22, <1>23, <1>24, <1>25, <1>26 DEF
     FrameTick
LEMMA ControllerTeam ==
    ASSUME TypeOK, TeamInv, Controller
    PROVE  TeamInv'
<1>1. CASE GuestStarts
  BY <1>1 DEF TypeOK, TeamInv, TeamMode, Living, GuestStarts
<1>2. CASE BodyStays
  BY <1>2 DEF TypeOK, TeamInv, TeamMode, Living, BodyStays, InController
<1>3. CASE TerrainHurts
  BY <1>3 DEF TypeOK, TeamInv, TeamMode, Living, TerrainHurts, InController
<1>4. CASE DeathStarts
  BY <1>4 DEF TypeOK, TeamInv, TeamMode, Living, DeathStarts, InController
<1>5. CASE DeathEnds
  BY <1>5 DEF TypeOK, TeamInv, TeamMode, Living, DeathEnds, InController
<1>6. CASE SecondPass
  BY <1>6 DEF TypeOK, TeamInv, TeamMode, Living, SecondPass
<1>7. CASE ControllerReturns
  BY <1>7 DEF TypeOK, TeamInv, TeamMode, Living, ControllerReturns
<1> QED
  BY <1>1, <1>2, <1>3, <1>4, <1>5, <1>6, <1>7 DEF Controller
LEMMA WorldTeam ==
    ASSUME TypeOK, TeamInv, WorldMoves
    PROVE  TeamInv'
<1>1. CASE Contact
  BY <1>1 DEF TypeOK, TeamInv, TeamMode, Living, Contact, Running, Hit
<1>2. CASE Crushed
  BY <1>2 DEF TypeOK, TeamInv, TeamMode, Living, Crushed, Running, Hit
<1>3. CASE Drained
  BY <1>3 DEF TypeOK, TeamInv, TeamMode, Living, Drained, Running
<1>4. CASE ArmorLeft
  BY <1>4 DEF TypeOK, TeamInv, TeamMode, Living, ArmorLeft
<1>5. CASE ScriptStarts
  BY <1>5 DEF TypeOK, TeamInv, TeamMode, Living, ScriptStarts
<1>6. CASE HoldStarts
  BY <1>6 DEF TypeOK, TeamInv, TeamMode, Living, HoldStarts
<1>7. CASE ScriptEnds
  BY <1>7 DEF TypeOK, TeamInv, TeamMode, Living, ScriptEnds
<1>8. CASE Farewell
  BY <1>8 DEF TypeOK, TeamInv, TeamMode, Living, Farewell
<1>9. CASE BossChanges
  BY <1>9 DEF TypeOK, TeamInv, TeamMode, Living, BossChanges
<1>10. CASE OneUp
  BY <1>10 DEF TypeOK, TeamInv, TeamMode, Living, OneUp
<1>11. CASE RefillStarts
  BY <1>11 DEF TypeOK, TeamInv, TeamMode, Living, RefillStarts
<1>12. CASE RefillEnds
  BY <1>12 DEF TypeOK, TeamInv, TeamMode, Living, RefillEnds
<1>13. CASE MenuCloses
  BY <1>13 DEF TypeOK, TeamInv, TeamMode, Living, MenuCloses
<1>14. CASE StageClears
  <2>1. stage' = "clear" /\ pc' = "world"
    BY <1>14, Zenon DEF StageClears, Running, Host
  <2> QED
    BY <2>1 DEF TeamInv, TeamMode
<1>15. CASE StageLeaves
  BY <1>15 DEF TypeOK, TeamInv, TeamMode, Living, StageLeaves
<1>16. CASE TeamRestarts
  BY <1>16 DEF TypeOK, TeamInv, TeamMode, Living, TeamRestarts
<1>17. CASE StageReady
  BY <1>17 DEF TypeOK, TeamInv, TeamMode, Living, StageReady
<1>18. ASSUME NEW s \in Seats, Falls(s) PROVE TeamInv'
  BY <1>18 DEF TypeOK, TeamInv, TeamMode, Living, Falls, Running
<1>19. ASSUME NEW s \in Seats, Boards(s) PROVE TeamInv'
  BY <1>19 DEF TypeOK, TeamInv, TeamMode, Living, Boards, Running
<1>20. ASSUME NEW s \in Seats, NEW both, Enters(s, both) PROVE TeamInv'
  BY <1>20 DEF TypeOK, TeamInv, TeamMode, Living, Enters
<1>21. ASSUME NEW s \in Seats, MenuOpens(s) PROVE TeamInv'
  BY <1>21 DEF TypeOK, TeamInv, TeamMode, Living, MenuOpens
<1> QED
  BY <1>1, <1>2, <1>3, <1>4, <1>5, <1>6, <1>7, <1>8, <1>9, <1>10, <1>11, <1>12, <1>13, <1>14,
     <1>15, <1>16, <1>17, <1>18, <1>19, <1>20, <1>21 DEF WorldMoves, EntersDoor, RidesLift
\* The end of a frame is where the main stage loop ends the game.
LEMMA TeamKept == TypeOK /\ TeamInv /\ [Next]_vars => TeamInv'
<1> SUFFICES ASSUME TypeOK, TeamInv, [Next]_vars PROVE TeamInv'
  OBVIOUS
<1>1. CASE Poll
  BY <1>1 DEF TeamInv, TeamMode, Living, Poll
<1>2. CASE FrameTick
  BY <1>2, FrameTickTeam
<1>3. CASE Controller
  BY <1>3, ControllerTeam
<1>4. CASE WorldMoves
  BY <1>4, WorldTeam
<1>5. CASE EndFrame
  BY <1>5 DEF TypeOK, TeamInv, TeamMode, Living, EndFrame, AllDead
<1>6. CASE UNCHANGED vars
  BY <1>6 DEF TeamInv, TeamMode, Living, vars
<1> QED
  BY <1>1, <1>2, <1>3, <1>4, <1>5, <1>6 DEF Next

\* The team loses the stage only when no player who may drive still lives.
THEOREM TeamLosesTogether == Spec => []TeamMode
<1>1. Init => TeamInv
  BY DEF Init, TeamInv, TeamMode
<1>2. TypeOK /\ TeamInv /\ [Next]_vars => TeamInv'
  BY TeamKept
<1>3. TeamInv => TeamMode
  BY DEF TeamInv
<1> QED
  BY <1>1, <1>2, <1>3, TypeCorrect, PTL DEF Spec
--------------------------------------------------------------------------------
\* A learner never begins to die.
LEMMA LearnerKept == TypeOK /\ LearnerNeverDies /\ [Next]_vars => LearnerNeverDies'
<1> SUFFICES ASSUME TypeOK, LearnerNeverDies, [Next]_vars, Learner PROVE LearnerNeverDies'
  BY DEF LearnerNeverDies
<1>1. CASE Poll
  BY <1>1 DEF LearnerNeverDies, Poll
<1>2. CASE FrameTick
  <2>1. CASE TickParked
    BY <2>1 DEF TypeOK, LearnerNeverDies, TickParked
  <2>2. CASE TickAway
    BY <2>2 DEF TypeOK, LearnerNeverDies, TickAway
  <2>3. CASE TickEntry
    BY <2>3 DEF TypeOK, LearnerNeverDies, TickEntry
  <2>4. CASE TickPlay
    BY <2>4 DEF TypeOK, LearnerNeverDies, TickPlay
  <2>5. CASE TickOwner
    BY <2>5 DEF TypeOK, LearnerNeverDies, TickOwner
  <2>6. CASE TickLearner
    BY <2>6 DEF TypeOK, LearnerNeverDies, TickLearner
  <2>7. CASE SceneStarts
    BY <2>7 DEF TypeOK, LearnerNeverDies, SceneStarts
  <2>8. CASE CapsuleTaken
    BY <2>8 DEF TypeOK, LearnerNeverDies, CapsuleTaken
  <2>9. CASE LeftBehind
    BY <2>9 DEF TypeOK, LearnerNeverDies, LeftBehind
  <2>10. CASE SceneStays
    BY <2>10 DEF TypeOK, LearnerNeverDies, SceneStays
  <2>11. CASE NoTransport
    BY <2>11 DEF TypeOK, LearnerNeverDies, NoTransport
  <2>12. CASE TransportPaused
    BY <2>12 DEF TypeOK, LearnerNeverDies, TransportPaused
  <2>13. CASE TransportTick
    BY <2>13 DEF TypeOK, LearnerNeverDies, TransportTick, Transporting
  <2>14. CASE ReturnWaits
    BY <2>14 DEF TypeOK, LearnerNeverDies, ReturnWaits
  <2>15. CASE PartnerReturns
    BY <2>15 DEF TypeOK, LearnerNeverDies, PartnerReturns, PlaceOther
  <2>16. CASE JoinLeaves
    BY <2>16 DEF TypeOK, LearnerNeverDies, JoinLeaves
  <2>17. CASE JoinTransition
    BY <2>17, JoinTransitionAbsents DEF TypeOK, LearnerNeverDies, JoinTransition
  <2>18. CASE JoinClosed
    BY <2>18 DEF TypeOK, LearnerNeverDies, JoinClosed
  <2>19. CASE WeaponsTick
    BY <2>19 DEF TypeOK, LearnerNeverDies, WeaponsTick
  <2>20. ASSUME NEW s \in Seats, FallenWaits(s) PROVE LearnerNeverDies'
    BY <2>20 DEF TypeOK, LearnerNeverDies, FallenWaits, Served
  <2>21. ASSUME NEW s \in Seats, FallenReturns(s) PROVE LearnerNeverDies'
    BY <2>21 DEF TypeOK, LearnerNeverDies, FallenReturns, PlaceOther
  <2>22. ASSUME NEW s \in Seats, SeatAlone(s) PROVE LearnerNeverDies'
    BY <2>22 DEF TypeOK, LearnerNeverDies, SeatAlone, Served
  <2>23. ASSUME NEW s \in Seats, SeatHolds(s) PROVE LearnerNeverDies'
    BY <2>23 DEF TypeOK, LearnerNeverDies, SeatHolds, Served
  <2>24. ASSUME NEW s \in Seats, Withdraws(s) PROVE LearnerNeverDies'
    BY <2>24 DEF TypeOK, LearnerNeverDies, Withdraws
  <2>25. ASSUME NEW s \in Seats, JoinWaits(s) PROVE LearnerNeverDies'
    BY <2>25 DEF TypeOK, LearnerNeverDies, JoinWaits, Served
  <2>26. ASSUME NEW s \in Seats, Joins(s) PROVE LearnerNeverDies'
    BY <2>26 DEF TypeOK, LearnerNeverDies, Joins, PlaceOther
  <2> QED
    BY <1>2, <2>1, <2>2, <2>3, <2>4, <2>5, <2>6, <2>7, <2>8, <2>9, <2>10, <2>11, <2>12,
       <2>13, <2>14, <2>15, <2>16, <2>17, <2>18, <2>19, <2>20, <2>21, <2>22, <2>23, <2>24,
       <2>25, <2>26 DEF FrameTick
<1>3. CASE Controller
  <2>1. CASE GuestStarts
    BY <2>1 DEF TypeOK, LearnerNeverDies, GuestStarts
  <2>2. CASE BodyStays
    BY <2>2 DEF TypeOK, LearnerNeverDies, BodyStays, InController
  <2>3. CASE TerrainHurts
    BY <2>3 DEF TypeOK, LearnerNeverDies, TerrainHurts, InController
  <2>4. CASE DeathStarts
    BY <2>4 DEF TypeOK, LearnerNeverDies, DeathStarts, InController
  <2>5. CASE DeathEnds
    BY <2>5 DEF TypeOK, LearnerNeverDies, DeathEnds, InController
  <2>6. CASE SecondPass
    BY <2>6 DEF TypeOK, LearnerNeverDies, SecondPass
  <2>7. CASE ControllerReturns
    BY <2>7 DEF TypeOK, LearnerNeverDies, ControllerReturns
  <2> QED
    BY <1>3, <2>1, <2>2, <2>3, <2>4, <2>5, <2>6, <2>7 DEF Controller
<1>4. CASE WorldMoves
  <2>1. CASE Contact
    BY <2>1 DEF TypeOK, LearnerNeverDies, Contact, Hit
  <2>2. CASE Crushed
    BY <2>2 DEF TypeOK, LearnerNeverDies, Crushed, Hit
  <2>3. CASE Drained
    BY <2>3 DEF TypeOK, LearnerNeverDies, Drained
  <2>4. CASE ArmorLeft
    BY <2>4 DEF TypeOK, LearnerNeverDies, ArmorLeft
  <2>5. CASE ScriptStarts
    BY <2>5 DEF TypeOK, LearnerNeverDies, ScriptStarts
  <2>6. CASE HoldStarts
    BY <2>6 DEF TypeOK, LearnerNeverDies, HoldStarts
  <2>7. CASE ScriptEnds
    BY <2>7 DEF TypeOK, LearnerNeverDies, ScriptEnds
  <2>8. CASE Farewell
    BY <2>8 DEF TypeOK, LearnerNeverDies, Farewell
  <2>9. CASE BossChanges
    BY <2>9 DEF TypeOK, LearnerNeverDies, BossChanges
  <2>10. CASE OneUp
    BY <2>10 DEF TypeOK, LearnerNeverDies, OneUp
  <2>11. CASE RefillStarts
    BY <2>11 DEF TypeOK, LearnerNeverDies, RefillStarts
  <2>12. CASE RefillEnds
    BY <2>12 DEF TypeOK, LearnerNeverDies, RefillEnds
  <2>13. CASE MenuCloses
    BY <2>13 DEF TypeOK, LearnerNeverDies, MenuCloses
  <2>14. CASE StageClears
    BY <2>14 DEF TypeOK, LearnerNeverDies, StageClears
  <2>15. CASE StageLeaves
    BY <2>15 DEF TypeOK, LearnerNeverDies, StageLeaves
  <2>16. CASE TeamRestarts
    BY <2>16 DEF TypeOK, LearnerNeverDies, TeamRestarts
  <2>17. CASE StageReady
    BY <2>17 DEF TypeOK, LearnerNeverDies, StageReady
  <2>18. ASSUME NEW s \in Seats, Falls(s) PROVE LearnerNeverDies'
    BY <2>18 DEF TypeOK, LearnerNeverDies, Falls
  <2>19. ASSUME NEW s \in Seats, Boards(s) PROVE LearnerNeverDies'
    BY <2>19 DEF TypeOK, LearnerNeverDies, Boards
  <2>20. ASSUME NEW s \in Seats, NEW both, Enters(s, both) PROVE LearnerNeverDies'
    BY <2>20 DEF TypeOK, LearnerNeverDies, Enters
  <2>21. ASSUME NEW s \in Seats, MenuOpens(s) PROVE LearnerNeverDies'
    BY <2>21 DEF TypeOK, LearnerNeverDies, MenuOpens
  <2> QED
    BY <1>4, <2>1, <2>2, <2>3, <2>4, <2>5, <2>6, <2>7, <2>8, <2>9, <2>10, <2>11, <2>12,
       <2>13, <2>14, <2>15, <2>16, <2>17, <2>18, <2>19, <2>20, <2>21
    DEF WorldMoves, EntersDoor, RidesLift
<1>5. CASE EndFrame
  BY <1>5 DEF LearnerNeverDies, EndFrame
<1>6. CASE UNCHANGED vars
  BY <1>6 DEF LearnerNeverDies, vars
<1> QED
  BY <1>1, <1>2, <1>3, <1>4, <1>5, <1>6 DEF Next

\* Whatever hits or drains a learner, he neither dies nor falls.
THEOREM LearnerSafe == Spec => []LearnerNeverDies
<1>1. Init => LearnerNeverDies
  BY DEF Init, LearnerNeverDies
<1>2. TypeOK /\ LearnerNeverDies /\ [Next]_vars => LearnerNeverDies'
  BY LearnerKept
<1> QED
  BY <1>1, <1>2, TypeCorrect, PTL DEF Spec
--------------------------------------------------------------------------------
\* The driver of the world.  Guest scripts look at the body of the driver, so
\* the host must never let the guest run with a dead driver while another seat
\* could drive, and whatever hurts "the" body must find the driver in it.  Both
\* rest on one invariant, ActorInv.

HostPart == {"learner", "scene", "transport", "seat0", "seat1", "weapons"}

\* The driver is in play, and a seat that is dying or has fallen has no health
\* left: of the driver it is enough to look at the health.
ActorPlays ==
    pending # 1 =>
        /\ status[anchor] # "absent"
        /\ \A s \in Seats : swap[s] \in {4, 5} => status[s] # "absent"
        /\ \A s \in Seats :
              status[s] = "fallen" \/ (status[s] = "alive" /\ ~IsLearner(s) /\ Dying(s))
                 => hp[s] = 0

\* The driver is projected whenever the host decides or the guest runs, but for
\* the second pass of the controller, the pause menu, and a P1 who returns
\* beside a learner: the tick projects the learner and leaves P1 the world.
Apart ==
    Learner /\ anchor = 0 /\ swap[0] \notin {1, 2} /\ ~refill /\ stage = "play" /\ pending # 1
ActorShown ==
    /\ menuOwner = None
          /\ pc \in {"poll", "stage", "owner", "learner", "scene", "transport", "seat0"}
       => current = anchor \/ Apart
    /\ menuOwner = None /\ pc \in {"guest", "world"} => current = anchor
    /\ pc \in {"controller", "return"} =>
          /\ menuOwner = None /\ pass \in {1, 2}
          /\ IF pass = 1 THEN current = anchor
             ELSE ~InScene /\ (pc = "controller" => status[current] = "alive")
    /\ pc \in HostPart \cup {"owner"} => menuOwner = None
    /\ menuOwner # None => stage = "play" /\ pending # 1
    /\ pc = "weapons" /\ stage # "play" => current = anchor

\* From the survivor repair to the guest.
Seen == Living(anchor) \/ ~Living(Other(anchor)) \/ IsLearner(Other(anchor))
ActorSeen == (pc \in HostPart /\ pending # 1) \/ (pc = "guest" /\ InGame) => Seen

\* Between two stages P1 drives, and stands with health when the next begins.
P1Stands ==
    /\ stage = "away" => pending = 1
    /\ stage = "death" => pending # 1
    /\ stage = "away" /\ pc \notin {"poll", "stage"} =>
          pc \in {"guest", "world"} /\ anchor = 0 /\ current = 0
    /\ pending = 1 /\ stage = "play" =>
          /\ anchor = 0 /\ hp[0] > 0 /\ act[0] = "free"
          /\ pc \in HostPart \cup {"owner"} => script = "wait"
    /\ pc = "seat1" => pending # 1 /\ stage = "play"
    /\ stage = "clear" => pc \in {"poll", "stage", "guest", "world"}

ActorInv == ActorPlays /\ ActorShown /\ ActorSeen /\ P1Stands

\* A seat that is being teleported can be chosen.
LEMMA MovingSeat ==
    ASSUME Moving # {}
    PROVE  (CHOOSE m \in Moving : \A n \in Moving : m <= n) \in Moving
<1>1. \E m \in Moving : \A n \in Moving : m <= n
  BY DEF Moving
<1> QED
  BY <1>1

LEMMA ActorFrame ==
    ASSUME TypeOK, LearnerNeverDies, ActorInv, FrameTick
    PROVE  ActorInv'
<1> USE DEF TypeOK, LearnerNeverDies, Dying, ActorInv, ActorPlays, Apart, ActorShown, ActorSeen,
            Seen, P1Stands, HostPart, InGame, Living
<1>1. CASE TickParked
  BY <1>1 DEF TickParked, NoHolds
<1>2. CASE TickAway
  BY <1>2 DEF TickAway
<1>3. CASE TickEntry
  BY <1>3 DEF TickEntry, EntersStage, InPlay
<1>4. CASE TickPlay
  BY <1>4 DEF TickPlay, EntersStage, InPlay
<1>5. CASE TickOwner
  <2> DEFINE rider == Cardinality(Riders) = 1
             pilot == IF rider THEN CHOOSE s \in Riders : TRUE ELSE anchor
             shown == IF rider THEN pilot ELSE current
             driver == IF Survives(pilot, shown) THEN Other(pilot) ELSE pilot
  <2>1. /\ pilot \in Seats /\ shown \in Seats
        /\ \/ pilot = anchor /\ shown = current
           \/ pilot = shown /\ Living(pilot) /\ pending = 0 /\ stage = "play"
    <3>1. CASE rider
      <4>1. (CHOOSE s \in Riders : TRUE) \in Riders
        BY <3>1, FS_EmptySet
      <4> QED
        BY <3>1, <4>1, PilotIsSeat, SMTT(60) DEF Riders
    <3>2. CASE ~rider
      BY <3>2 DEF TypeOK
    <3> QED
      BY <3>1, <3>2
  <2> HIDE DEF rider, pilot, shown
  <2>2. /\ anchor' = driver
        /\ current' = IF Survives(pilot, shown) \/ InScene THEN driver ELSE shown
        /\ solo' = IF \A s \in Seats : status[s] = "alive" /\ hp[s] = 0
                   THEN {Other(driver)} ELSE solo
        /\ pc = "owner" /\ pc' \in {"guest", "learner"} /\ (pc' = "guest" => refill)
        /\ UNCHANGED <<bodies, respawn, scene, roster, select, buttons, away, menuOwner, world,
                      place>>
    BY <1>5 DEF TickOwner, pilot, shown, rider
  <2>3. ActorPlays'
    BY <2>1, <2>2 DEF Survives
  <2>4. ActorShown'
    BY <2>1, <2>2 DEF Survives
  <2>5. ActorSeen'
    BY <2>1, <2>2 DEF Survives
  <2>6. P1Stands'
    BY <2>1, <2>2 DEF Survives
  <2> QED
    BY <2>3, <2>4, <2>5, <2>6 DEF ActorInv
<1>6. CASE TickLearner
  BY <1>6 DEF TickLearner, LearnerIdle, TakesBack, Gameplay, Beam
<1>7. CASE SceneStarts
  BY <1>7 DEF SceneStarts, BeginScene, Beam, ScriptCalls
<1>8. CASE CapsuleTaken
  <2>1. ActorPlays'
    BY <1>8, DriversAreSeats DEF CapsuleTaken, BothLiving, ScriptCalls
  <2>2. ActorShown'
    BY <1>8, DriversAreSeats DEF CapsuleTaken, BothLiving, ScriptCalls
  <2>3. ActorSeen'
    BY <1>8, DriversAreSeats DEF CapsuleTaken, BothLiving, ScriptCalls
  <2>4. P1Stands'
    BY <1>8, DriversAreSeats DEF CapsuleTaken, BothLiving, ScriptCalls
  <2> QED
    BY <2>1, <2>2, <2>3, <2>4 DEF ActorInv
<1>9. CASE LeftBehind
  <2>1. anchor' \in Seats /\ current' = anchor'
    BY <1>9, DriversAreSeats DEF LeftBehind
  <2>2. /\ pc = "scene" /\ pc' = "transport" /\ ~InScene /\ BothLiving /\ ~ScriptCalls
        /\ UNCHANGED <<status, act, deaths, roster, select, buttons, menuOwner, world, place>>
        /\ hp' = [hp EXCEPT ![1] = MaxHp] \/ hp' = hp
        /\ swap' = [swap EXCEPT ![Other(anchor')] = 1] \/ swap' = swap
    BY <1>9 DEF LeftBehind, Beam
  <2>3. hp'[0] > 0 /\ hp'[1] > 0 /\ status'[0] = "alive" /\ status'[1] = "alive"
    BY <2>2 DEF BothLiving, Living, TypeOK
  <2>4. ActorPlays'
    BY <2>1, <2>2, <2>3 DEF BothLiving, ScriptCalls
  <2>5. ActorShown'
    BY <2>1, <2>2, <2>3 DEF BothLiving, ScriptCalls
  <2>6. ActorSeen'
    BY <2>1, <2>2, <2>3 DEF BothLiving, ScriptCalls
  <2>7. P1Stands'
    BY <2>1, <2>2, <2>3 DEF BothLiving, ScriptCalls
  <2> QED
    BY <2>4, <2>5, <2>6, <2>7 DEF ActorInv
<1>10. CASE SceneStays
  BY <1>10 DEF SceneStays
<1>11. CASE NoTransport
  BY <1>11 DEF NoTransport
<1>12. CASE TransportPaused
  BY <1>12 DEF TransportPaused, Transporting
<1>13. CASE TransportTick
  <2> DEFINE p == Partner
  <2>1. PICK next \in Ticked(p) :
          /\ swap' = [swap EXCEPT ![p] = next]
          /\ \/ UNCHANGED <<status, scene>>
             \/ /\ NoScene /\ next = 0
                /\ status' = status \/ status' = [status EXCEPT ![p] = "absent"]
             \/ UNCHANGED <<status, sceneOwner>>
    BY <1>13 DEF TransportTick
  <2>2. /\ pc = "transport" /\ pc' \in {"seat0", "poll"} /\ InScene /\ status[p] = "alive"
        /\ UNCHANGED <<hp, act, deaths, roles, roster, buttons, away, menuOwner, world, place>>
    BY <1>13 DEF TransportTick, Transporting
  <2>3. p \in Seats /\ p # anchor /\ (next \in {4, 5} => swap[p] \in {4, 5})
    BY DEF Ticked, TypeOK
  <2> HIDE DEF p
  <2>4. ActorPlays'
    BY <2>1, <2>2, <2>3
  <2>5. ActorShown'
    BY <2>1, <2>2, <2>3
  <2>6. ActorSeen'
    BY <2>1, <2>2, <2>3
  <2>7. P1Stands'
    BY <2>1, <2>2, <2>3
  <2> QED
    BY <2>4, <2>5, <2>6, <2>7 DEF ActorInv
<1>14. CASE ReturnWaits
  BY <1>14 DEF ReturnWaits, Transporting
<1>15. CASE PartnerReturns
  <2>1. ActorPlays'
    BY <1>15 DEF PartnerReturns, Transporting, MayReturn, PlaceOther
  <2>2. ActorShown'
    BY <1>15 DEF PartnerReturns, Transporting, MayReturn, PlaceOther
  <2>3. ActorSeen'
    BY <1>15 DEF PartnerReturns, Transporting, MayReturn, PlaceOther
  <2>4. P1Stands'
    BY <1>15 DEF PartnerReturns, Transporting, MayReturn, PlaceOther
  <2> QED
    BY <2>1, <2>2, <2>3, <2>4 DEF ActorInv
<1>16. CASE JoinLeaves
  BY <1>16 DEF JoinLeaves
<1>17. CASE JoinTransition
  <2> DEFINE m == CHOOSE m \in Moving : \A n \in Moving : m <= n
  <2>1. /\ pc = "seat0" /\ pc' = "poll" /\ Moving # {} /\ ~InScene
        /\ UNCHANGED <<hp, act, deaths, scene, roster, buttons, away, menuOwner, world, place>>
    BY <1>17 DEF JoinTransition
  <2>2. m \in Moving
    BY <2>1, MovingSeat
  <2>3. PICK next \in Ticked(m) :
          /\ swap' = [swap EXCEPT ![m] = next]
          /\ \/ UNCHANGED <<status, roles>>
             \/ /\ next = 0
                /\ status' = IF swap[m] = 2 THEN [status EXCEPT ![m] = "absent"] ELSE status
                /\ \/ m = 0 /\ swap[m] = 5 /\ anchor' = 0 /\ current' = 0
                   \/ UNCHANGED roles
    BY <1>17 DEF JoinTransition
  <2> HIDE DEF m
  <2>4. /\ m \in Seats /\ swap[m] # 0 /\ (next = 0 => m # current)
        /\ next \in {4, 5} => swap[m] \in {4, 5}
        /\ next \in {1, 2} => swap[m] \in {1, 2}
    BY <2>2, <2>3 DEF Moving, Ticked
  <2>5. status' = status \/ (m # current /\ swap[m] = 2 /\ status' = [status EXCEPT ![m] = "absent"])
    BY <2>3, <2>4
  <2>6. ActorPlays'
    BY <2>1, <2>3, <2>4, <2>5
  <2>7. ActorShown'
    BY <2>1, <2>3, <2>4, <2>5
  <2>8. ActorSeen'
    BY <2>1, <2>3, <2>4, <2>5
  <2>9. P1Stands'
    BY <2>1, <2>3, <2>4, <2>5
  <2> QED
    BY <2>6, <2>7, <2>8, <2>9 DEF ActorInv
<1>18. CASE JoinClosed
  BY <1>18, SMTT(60) DEF JoinClosed, MayJoin, Gameplay
<1>19. ASSUME NEW s \in Seats, FallenWaits(s) PROVE ActorInv'
  BY <1>19 DEF FallenWaits, Serving, SeatStep, MayJoin, Served, NextSeat, Gameplay
<1>20. ASSUME NEW s \in Seats, FallenReturns(s) PROVE ActorInv'
  <2>1. ActorPlays'
    BY <1>20 DEF FallenReturns, Serving, SeatStep, MayJoin, PlaceOther, Present, Gameplay
  <2>2. ActorShown'
    BY <1>20 DEF FallenReturns, Serving, SeatStep, MayJoin, PlaceOther, Present, Gameplay
  <2>3. ActorSeen'
    BY <1>20 DEF FallenReturns, Serving, SeatStep, MayJoin, PlaceOther, Present, Gameplay
  <2>4. P1Stands'
    BY <1>20 DEF FallenReturns, Serving, SeatStep, MayJoin, PlaceOther, Present, Gameplay
  <2> QED
    BY <2>1, <2>2, <2>3, <2>4 DEF ActorInv
<1>21. ASSUME NEW s \in Seats, SeatAlone(s) PROVE ActorInv'
  BY <1>21 DEF SeatAlone, Serving, SeatStep, MayJoin, Served, NextSeat, Gameplay
<1>22. ASSUME NEW s \in Seats, SeatHolds(s) PROVE ActorInv'
  BY <1>22 DEF SeatHolds, Serving, SeatStep, MayJoin, Served, NextSeat, Gameplay
<1>23. ASSUME NEW s \in Seats, Withdraws(s) PROVE ActorInv'
  BY <1>23 DEF Withdraws, Serving, SeatStep, MayJoin, Beam, Present, Gameplay
<1>24. ASSUME NEW s \in Seats, JoinWaits(s) PROVE ActorInv'
  BY <1>24 DEF JoinWaits, Serving, SeatStep, MayJoin, Served, NextSeat, Outside, Gameplay
<1>25. ASSUME NEW s \in Seats, Joins(s) PROVE ActorInv'
  <2>1. ActorPlays'
    BY <1>25 DEF Joins, Outside, Automatic, Serving, SeatStep, MayJoin, PlaceOther,
       Present, Gameplay
  <2>2. ActorShown'
    BY <1>25 DEF Joins, Outside, Automatic, Serving, SeatStep, MayJoin, PlaceOther,
       Present, Gameplay
  <2>3. ActorSeen'
    BY <1>25 DEF Joins, Outside, Automatic, Serving, SeatStep, MayJoin, PlaceOther,
       Present, Gameplay
  <2>4. P1Stands'
    BY <1>25 DEF Joins, Outside, Automatic, Serving, SeatStep, MayJoin, PlaceOther,
       Present, Gameplay
  <2> QED
    BY <2>1, <2>2, <2>3, <2>4 DEF ActorInv
<1>26. CASE WeaponsTick
  BY <1>26 DEF WeaponsTick
<1> QED
  BY <1>1, <1>2, <1>3, <1>4, <1>5, <1>6, <1>7, <1>8, <1>9, <1>10, <1>11, <1>12, <1>13,
     <1>14, <1>15, <1>16, <1>17, <1>18, <1>19, <1>20, <1>21, <1>22, <1>23, <1>24, <1>25,
     <1>26 DEF FrameTick

LEMMA ActorController ==
    ASSUME TypeOK, LearnerNeverDies, ActorInv, Controller
    PROVE  ActorInv'
<1> USE DEF TypeOK, LearnerNeverDies, Dying, ActorInv, ActorPlays, Apart, ActorShown, ActorSeen,
            Seen, P1Stands, HostPart, InGame, Living
<1>1. CASE GuestStarts
  BY <1>1 DEF GuestStarts
<1>2. CASE BodyStays
  BY <1>2 DEF BodyStays, InController
<1>3. CASE TerrainHurts
  BY <1>3 DEF TerrainHurts, InController, Exposed
<1>4. CASE DeathStarts
  <2>1. ActorPlays'
    BY <1>4 DEF DeathStarts, InController, DiesAlone
  <2>2. ActorShown'
    BY <1>4 DEF DeathStarts, InController, DiesAlone
  <2>3. ActorSeen'
    BY <1>4 DEF DeathStarts, InController, DiesAlone
  <2>4. P1Stands'
    BY <1>4 DEF DeathStarts, InController, DiesAlone
  <2> QED
    BY <2>1, <2>2, <2>3, <2>4 DEF ActorInv
<1>5. CASE DeathEnds
  <2>1. ActorPlays'
    BY <1>5 DEF DeathEnds, InController
  <2>2. ActorShown'
    BY <1>5 DEF DeathEnds, InController
  <2>3. ActorSeen'
    BY <1>5 DEF DeathEnds, InController
  <2>4. P1Stands'
    BY <1>5 DEF DeathEnds, InController
  <2> QED
    BY <2>1, <2>2, <2>3, <2>4 DEF ActorInv
<1>6. CASE SecondPass
  BY <1>6 DEF SecondPass, RunsPartner
<1>7. CASE ControllerReturns
  BY <1>7 DEF ControllerReturns, RunsPartner
<1> QED
  BY <1>1, <1>2, <1>3, <1>4, <1>5, <1>6, <1>7 DEF Controller

LEMMA ActorWorld ==
    ASSUME TypeOK, LearnerNeverDies, ActorInv, WorldMoves
    PROVE  ActorInv'
<1> USE DEF TypeOK, LearnerNeverDies, Dying, ActorInv, ActorPlays, Apart, ActorShown, ActorSeen,
            Seen, P1Stands, HostPart, InGame, Living
<1>1. CASE Contact
  <2>1. ActorPlays'
    BY <1>1 DEF Contact, Running, Hit, Touched, Exposed
  <2>2. ActorShown'
    BY <1>1 DEF Contact, Running, Hit, Touched, Exposed
  <2>3. ActorSeen'
    BY <1>1 DEF Contact, Running, Hit, Touched, Exposed
  <2>4. P1Stands'
    BY <1>1 DEF Contact, Running, Hit, Touched, Exposed
  <2> QED
    BY <2>1, <2>2, <2>3, <2>4 DEF ActorInv
<1>2. CASE Crushed
  BY <1>2 DEF Crushed, Running, Hit, Touched, Exposed
<1>3. CASE Drained
  BY <1>3 DEF Drained, Running, Exposed
<1>4. CASE ArmorLeft
  BY <1>4 DEF ArmorLeft, Running
<1>5. CASE ScriptStarts
  BY <1>5 DEF ScriptStarts, Running
<1>6. CASE HoldStarts
  BY <1>6 DEF HoldStarts, Running
<1>7. CASE ScriptEnds
  BY <1>7 DEF ScriptEnds
<1>8. CASE Farewell
  BY <1>8 DEF Farewell, Running, BeginScene, Beam
<1>9. CASE BossChanges
  BY <1>9 DEF BossChanges, Running
<1>10. CASE OneUp
  BY <1>10 DEF OneUp, Running
<1>11. CASE RefillStarts
  BY <1>11 DEF RefillStarts, Running
<1>12. CASE RefillEnds
  BY <1>12 DEF RefillEnds
<1>13. CASE MenuCloses
  BY <1>13 DEF MenuCloses
<1>14. CASE StageClears
  BY <1>14 DEF StageClears, Running
<1>15. CASE StageLeaves
  BY <1>15 DEF StageLeaves
<1>16. CASE TeamRestarts
  BY <1>16 DEF TeamRestarts
<1>17. CASE StageReady
  BY <1>17 DEF StageReady
<1>18. ASSUME NEW s \in Seats, Falls(s) PROVE ActorInv'
  BY <1>18 DEF Falls, Running
<1>19. ASSUME NEW s \in Seats, Boards(s) PROVE ActorInv'
  BY <1>19 DEF Boards, Running
<1>20. ASSUME NEW s \in Seats, NEW both, Enters(s, both) PROVE ActorInv'
  BY <1>20 DEF Enters, Running, BeginScene, Beam, Exposed
<1>21. ASSUME NEW s \in Seats, MenuOpens(s) PROVE ActorInv'
  BY <1>21 DEF MenuOpens, Running
<1> QED
  BY <1>1, <1>2, <1>3, <1>4, <1>5, <1>6, <1>7, <1>8, <1>9, <1>10, <1>11, <1>12, <1>13,
     <1>14, <1>15, <1>16, <1>17, <1>18, <1>19, <1>20, <1>21 DEF WorldMoves, EntersDoor, RidesLift

LEMMA ActorInit == Init => ActorInv
  BY DEF Init, ActorInv, ActorPlays, ActorShown, Apart, ActorSeen, P1Stands, HostPart, Dying

LEMMA ActorKept == TypeOK /\ LearnerNeverDies /\ ActorInv /\ [Next]_vars => ActorInv'
<1> SUFFICES ASSUME TypeOK, LearnerNeverDies, ActorInv, [Next]_vars PROVE ActorInv'
  OBVIOUS
<1> USE DEF ActorInv, ActorPlays, ActorShown, Apart, ActorSeen, Seen, P1Stands, HostPart, InGame,
            Living, Dying
<1>1. CASE Poll
  BY <1>1 DEF TypeOK, Poll
<1>2. CASE FrameTick
  BY <1>2, ActorFrame
<1>3. CASE Controller
  BY <1>3, ActorController
<1>4. CASE WorldMoves
  BY <1>4, ActorWorld
<1>5. CASE EndFrame
  BY <1>5 DEF TypeOK, EndFrame
<1>6. CASE UNCHANGED vars
  BY <1>6 DEF vars
<1> QED
  BY <1>1, <1>2, <1>3, <1>4, <1>5, <1>6 DEF Next

LEMMA ActorAlways == Spec => []ActorInv
  BY ActorInit, ActorKept, TypeCorrect, LearnerSafe, PTL DEF Spec

\* Guest scripts find a living driver whenever a player who may drive lives:
\* MmxCoopFrameTick has handed the world over before the guest looks.
THEOREM WorldActorAlways == Spec => []WorldActorLives
<1>1. ActorInv => WorldActorLives
  BY DEF ActorInv, ActorSeen, Seen, WorldActorLives
<1> QED
  BY <1>1, ActorAlways, PTL

LEMMA StageOnlyReady ==
    ASSUME TypeOK, Next, stage = "away", stage' # stage
    PROVE  StageReady
<1>1. CASE Poll
  BY <1>1 DEF Poll
<1>2. CASE FrameTick
  BY <1>2 DEF FrameTick, TickParked, TickAway, TickEntry, TickPlay, TickOwner, TickLearner,
     SceneStarts, CapsuleTaken, LeftBehind, SceneStays, NoTransport, TransportPaused,
     TransportTick, ReturnWaits, PartnerReturns, JoinLeaves, JoinTransition, JoinClosed,
     FallenWaits, FallenReturns, SeatAlone, SeatHolds, Withdraws, JoinWaits, Joins, Served,
     WeaponsTick
<1>3. CASE Controller
  BY <1>3 DEF Controller, GuestStarts, BodyStays, TerrainHurts, DeathStarts, DeathEnds,
     SecondPass, ControllerReturns
<1>4. CASE WorldMoves
  BY <1>4 DEF WorldMoves, Running, Contact, Crushed, Drained, ArmorLeft, ScriptStarts, HoldStarts,
     ScriptEnds, Farewell, BossChanges, OneUp, RefillStarts, RefillEnds, MenuCloses, StageClears,
     StageLeaves, TeamRestarts, Falls, Boards, EntersDoor, RidesLift, Enters, MenuOpens
<1>5. CASE EndFrame
  BY <1>5 DEF EndFrame
<1> QED
  BY <1>1, <1>2, <1>3, <1>4, <1>5 DEF Next

\* The native entry rebuilds P1 with P1's seat projected and driving.
THEOREM EntryAlwaysP1 == Spec => EntryRebuildsP1
<1>1. TypeOK /\ ActorInv /\ [Next]_vars => (stage = "away" /\ stage' = "play" => current = 0 /\ anchor = 0)
  BY StageOnlyReady DEF StageReady, ActorInv, P1Stands, vars
<1> QED
  BY <1>1, ActorAlways, TypeCorrect, PTL DEF Spec, EntryRebuildsP1

\* The host's own tick never takes health from anybody.
LEMMA TickNeverHurts ==
    ASSUME TypeOK, FrameTick, NEW p \in Seats
    PROVE  hp'[p] >= hp[p]
<1>1. CASE TickEntry
  BY <1>1 DEF TypeOK, TickEntry
<1>2. CASE TickLearner
  BY <1>2 DEF TypeOK, TickLearner
<1>3. CASE LeftBehind
  BY <1>3 DEF TypeOK, LeftBehind
<1>4. CASE PartnerReturns
  BY <1>4 DEF TypeOK, PartnerReturns, PlaceOther
<1>5. ASSUME NEW s \in Seats, FallenReturns(s) \/ Withdraws(s) \/ Joins(s) PROVE hp'[p] >= hp[p]
  BY <1>5 DEF TypeOK, FallenReturns, Withdraws, Joins, PlaceOther
<1>6. CASE UNCHANGED hp
  BY <1>6 DEF TypeOK
<1>7. \/ TickEntry \/ TickLearner \/ LeftBehind \/ PartnerReturns \/ UNCHANGED hp
      \/ \E s \in Seats : FallenReturns(s) \/ Withdraws(s) \/ Joins(s)
  BY DEF FrameTick, TickParked, TickAway, TickPlay, TickOwner, SceneStarts, CapsuleTaken,
     SceneStays, NoTransport, TransportPaused, TransportTick, ReturnWaits, JoinLeaves,
     JoinTransition, JoinClosed, FallenWaits, SeatAlone, SeatHolds, JoinWaits, Served, WeaponsTick
<1> QED
  BY <1>1, <1>2, <1>3, <1>4, <1>5, <1>6, <1>7

LEMMA HiddenStep ==
    ASSUME TypeOK, ActorInv, [Next]_vars, InScene
    PROVE  hp'[Partner] >= hp[Partner]
<1>1. Partner \in Seats /\ Partner # anchor
  BY DEF TypeOK
<1>2. CASE Poll
  BY <1>1, <1>2 DEF TypeOK, Poll
<1>3. CASE FrameTick
  BY <1>1, <1>3, TickNeverHurts
<1>4. CASE Controller
  <2>1. CASE TerrainHurts
    BY <1>1, <2>1 DEF TypeOK, TerrainHurts, InController, ActorInv, ActorShown
  <2>2. CASE DeathStarts
    BY <1>1, <2>2 DEF TypeOK, DeathStarts
  <2>3. CASE GuestStarts \/ BodyStays \/ DeathEnds \/ SecondPass \/ ControllerReturns
    BY <1>1, <2>3 DEF TypeOK, GuestStarts, BodyStays, DeathEnds, SecondPass, ControllerReturns
  <2> QED
    BY <1>4, <2>1, <2>2, <2>3 DEF Controller
<1>5. CASE WorldMoves
  <2>1. CASE Contact \/ Crushed
    <3>1. current = anchor /\ Touched = {current}
      BY <2>1 DEF Contact, Crushed, Running, ActorInv, ActorShown, Touched
    <3> QED
      BY <1>1, <2>1, <3>1 DEF TypeOK, Contact, Crushed, Hit
  <2>2. ASSUME NEW s \in Seats, Falls(s) PROVE hp'[Partner] >= hp[Partner]
    BY <1>1, <2>2 DEF TypeOK, Falls
  <2>3. CASE StageReady
    BY <1>1, <2>3 DEF TypeOK, StageReady
  <2>4. CASE Drained
    BY <2>4 DEF Drained
  <2>5. CASE UNCHANGED hp
    BY <1>1, <2>5 DEF TypeOK
  <2>6. \/ Contact \/ Crushed \/ StageReady \/ Drained \/ UNCHANGED hp \/ \E s \in Seats : Falls(s)
    BY <1>5 DEF WorldMoves, ArmorLeft, ScriptStarts, HoldStarts, ScriptEnds, Farewell,
       BossChanges, OneUp, RefillStarts, RefillEnds, MenuCloses, StageClears, StageLeaves,
       TeamRestarts, Boards, EntersDoor, RidesLift, Enters, MenuOpens
  <2> QED
    BY <2>1, <2>2, <2>3, <2>4, <2>5, <2>6
<1>6. CASE EndFrame
  BY <1>1, <1>6 DEF TypeOK, EndFrame
<1>7. CASE UNCHANGED vars
  BY <1>1, <1>7 DEF TypeOK, vars
<1> QED
  BY <1>2, <1>3, <1>4, <1>5, <1>6, <1>7 DEF Next

\* While a scene owns the stage, nothing takes health from the partner it
\* keeps away: whatever hurts a body finds the driver projected.
THEOREM HiddenSafe == Spec => HiddenUntouched
<1>1. TypeOK /\ ActorInv /\ [Next]_vars => (InScene => hp'[Partner] >= hp[Partner])
  BY HiddenStep
<1> QED
  BY <1>1, ActorAlways, TypeCorrect, PTL DEF Spec, HiddenUntouched
--------------------------------------------------------------------------------
\* A player in the stage.  Without a ride armor, and with nobody hurt in a scene
\* that is not a learner's transport, whoever drives when the guest runs lives
\* and stands in the stage.  StageInv says why: teleports outside a scene hold
\* the guest back, a scene leaves its driver alone, and the end of a frame with
\* a dead driver ends the stage unless the other seat can take over.
PlainStage == "sceneHits" \notin World /\ "armor" \notin World

Playing == stage = "play" /\ pending # 1
Early == {"poll", "stage", "owner", "learner", "scene", "transport", "seat0"}

\* No body is in a ride armor.
Unarmored == ~occupied /\ \A s \in Seats : act[s] # "armor"

\* P1 is not in a teleport when a stage begins.
StillBody ==
    /\ stage = "clear" => Moving = {}
    /\ stage = "away" \/ (pending = 1 /\ stage = "play") => swap[0] = 0

\* A driver who died is replaced before the host's own part of the frame.
DriverLives ==
    Playing /\ menuOwner = None =>
      /\ pc \in {"poll", "stage", "owner"} => Living(anchor)
             \/ (Living(Other(anchor)) /\ ~IsLearner(Other(anchor)) /\ ~InScene)
      /\ pc \in HostPart \cup {"guest"} => Living(anchor)

\* In a scene both seats live; only a learner's transport lets its driver die,
\* and then for the rest of the frame.
SceneBodies ==
    InScene /\ Playing =>
      /\ menuOwner = None /\ pc # "seat1"
      /\ Living(Partner)
      /\ Living(anchor) \/ (LiveScene /\ pc \in {"controller", "return", "world"})
      /\ swap[anchor] = 0
      /\ LiveScene => Learner /\ anchor = 0
      /\ "WITHDRAW" \in sceneFlags => LiveScene

\* Outside a scene a teleport holds the world, and who is teleported lives.
WorldHeld ==
    /\ ~InScene /\ Playing /\ Moving # {} =>
          /\ pc \in Early /\ ~refill /\ script = "none" /\ menuOwner = None
          /\ ~Learner
          /\ \A s \in Moving : Living(s)
    /\ pc = "seat1" => stage = "play" /\ script = "none" /\ ~refill
    /\ Playing => \A s \in Seats : status[s] = "absent" => hp[s] > 0
    /\ Learner /\ Playing => status[0] = "alive" /\ 0 \notin solo

StageInv == Unarmored /\ StillBody /\ DriverLives /\ SceneBodies /\ WorldHeld

\* Without an armor nobody is a rider.
LEMMA NoRiders == Unarmored => Riders = {} /\ Cardinality(Riders) # 1
<1>1. Unarmored => Riders = {}
  BY DEF Unarmored, Riders
<1> QED
  BY <1>1, FS_EmptySet

\* Who starts a scene is not beamed himself.
LEMMA BeamedStays ==
    ASSUME TypeOK, NEW d \in Seats, NEW flags, Beam(d, flags), swap[0] = 0, swap[1] = 0
    PROVE  swap'[d] = 0
  BY DEF TypeOK, Beam

\* Who is left below the screen is beamed to the other one, who drives.
LEMMA LeftBehindRoles ==
    ASSUME TypeOK, ActorInv, LeftBehind
    PROVE  /\ anchor' \in Seats /\ current' = anchor'
           /\ pc = "scene" /\ pc' = "transport" /\ ~InScene /\ pending # 1
           /\ Living(0) /\ Living(1) /\ (hp' = [hp EXCEPT ![1] = MaxHp] \/ hp' = hp)
           /\ UNCHANGED <<status, act, deaths, roster, select, buttons, menuOwner, world, place>>
           /\ \/ UNCHANGED <<swap, scene>>
              \/ /\ swap'[anchor'] = 0 /\ sceneOwner' = anchor' /\ ~IsLearner(anchor')
                 /\ sceneFlags' = IF Learner THEN {"LIVE"} ELSE {}
<1>1. PICK d \in Drivers, low \in SUBSET Seats, far \in BOOLEAN :
        LET lost == ~Learner /\ d \in low /\ Other(d) \notin low
            driver == IF lost THEN Other(d) ELSE d
            leaves == lost \/ Other(d) \in low \/ far
        IN  /\ low # {} \/ far => Moving = {}
            /\ anchor' = driver /\ current' = driver
            /\ IF leaves /\ ~IsLearner(driver)
               THEN Beam(driver, IF Learner THEN {"LIVE"} ELSE {})
               ELSE UNCHANGED <<swap, scene>>
  BY DEF LeftBehind
<1>2. d \in Seats
  BY DriversAreSeats
<1>3. /\ anchor' \in Seats /\ current' = anchor'
      /\ \/ UNCHANGED <<swap, scene>>
         \/ /\ Moving = {} /\ ~IsLearner(anchor')
            /\ Beam(anchor', IF Learner THEN {"LIVE"} ELSE {})
  BY <1>1, <1>2
<1>4. /\ pc = "scene" /\ pc' = "transport" /\ ~InScene /\ BothLiving /\ ~ScriptCalls
      /\ UNCHANGED <<status, act, deaths, roster, select, buttons, menuOwner, world, place>>
      /\ hp' = [hp EXCEPT ![1] = MaxHp] \/ hp' = hp
  BY DEF LeftBehind
<1>5. pending # 1
  BY <1>4 DEF ActorInv, ActorPlays, ActorShown, Apart, P1Stands, HostPart, ScriptCalls,
     BothLiving,
     Living, Dying, TypeOK
<1>6. Moving = {} => swap[0] = 0 /\ swap[1] = 0
  BY DEF Moving
<1>7. ASSUME Moving = {}, Beam(anchor', IF Learner THEN {"LIVE"} ELSE {}) PROVE swap'[anchor'] = 0
  BY <1>3, <1>6, <1>7, BeamedStays
<1> QED
  BY <1>3, <1>4, <1>5, <1>7 DEF BothLiving, Beam

\* The host's own part of the frame keeps the stage's invariant.
LEMMA StageFrame ==
    ASSUME PlainStage, TypeOK, LearnerNeverDies, ActorInv, StageInv, FrameTick
    PROVE  StageInv'
<1> USE DEF PlainStage, TypeOK, LearnerNeverDies, Dying, ActorInv, ActorPlays, Apart, ActorShown,
            ActorSeen, Seen, P1Stands, HostPart, InGame, Living, StageInv, Playing, Early,
            Unarmored,
            StillBody, DriverLives, SceneBodies, WorldHeld, Moving, LiveScene
<1>1. CASE TickParked
  <2>1. Unarmored'
    BY <1>1 DEF TickParked, NoHolds
  <2>2. StillBody'
    BY <1>1 DEF TickParked, NoHolds
  <2>3. DriverLives'
    BY <1>1 DEF TickParked, NoHolds
  <2>4. SceneBodies'
    BY <1>1 DEF TickParked, NoHolds
  <2>5. WorldHeld'
    BY <1>1 DEF TickParked, NoHolds
  <2> QED
    BY <2>1, <2>2, <2>3, <2>4, <2>5 DEF StageInv
<1>2. CASE TickAway
  <2>1. Unarmored'
    BY <1>2 DEF TickAway
  <2>2. StillBody'
    BY <1>2 DEF TickAway
  <2>3. DriverLives'
    BY <1>2 DEF TickAway
  <2>4. SceneBodies'
    BY <1>2 DEF TickAway
  <2>5. WorldHeld'
    BY <1>2 DEF TickAway
  <2> QED
    BY <2>1, <2>2, <2>3, <2>4, <2>5 DEF StageInv
<1>3. CASE TickEntry
  <2>1. Unarmored'
    BY <1>3 DEF TickEntry, EntersStage, InPlay
  <2>2. StillBody'
    BY <1>3 DEF TickEntry, EntersStage, InPlay
  <2>3. DriverLives'
    BY <1>3 DEF TickEntry, EntersStage, InPlay
  <2>4. SceneBodies'
    BY <1>3 DEF TickEntry, EntersStage, InPlay
  <2>5. WorldHeld'
    BY <1>3 DEF TickEntry, EntersStage, InPlay
  <2> QED
    BY <2>1, <2>2, <2>3, <2>4, <2>5 DEF StageInv
<1>4. CASE TickPlay
  <2>1. Unarmored'
    BY <1>4 DEF TickPlay, EntersStage, InPlay
  <2>2. StillBody'
    BY <1>4 DEF TickPlay, EntersStage, InPlay
  <2>3. DriverLives'
    BY <1>4 DEF TickPlay, EntersStage, InPlay
  <2>4. SceneBodies'
    BY <1>4 DEF TickPlay, EntersStage, InPlay
  <2>5. WorldHeld'
    BY <1>4 DEF TickPlay, EntersStage, InPlay
  <2> QED
    BY <2>1, <2>2, <2>3, <2>4, <2>5 DEF StageInv
<1>5. CASE TickOwner
  <2> DEFINE driver == IF Survives(anchor, current) THEN Other(anchor) ELSE anchor
  <2>1. /\ anchor' = driver
        /\ current' \in {driver, current}
        /\ solo' = IF \A s \in Seats : status[s] = "alive" /\ hp[s] = 0
                   THEN {Other(driver)} ELSE solo
        /\ pc = "owner" /\ pc' \in {"guest", "learner"} /\ (pc' = "guest" => refill /\ ~InScene)
        /\ UNCHANGED <<bodies, respawn, scene, roster, select, buttons, away, menuOwner, world,
                      place>>
    BY <1>5, NoRiders DEF TickOwner
  <2>2. Unarmored'
    BY <2>1, <1>5, NoRiders DEF Survives
  <2>3. StillBody'
    BY <2>1, <1>5, NoRiders DEF Survives
  <2>4. DriverLives'
    BY <2>1, <1>5, NoRiders DEF Survives
  <2>5. SceneBodies'
    BY <2>1, <1>5, NoRiders DEF Survives
  <2>6. WorldHeld'
    BY <2>1, <1>5, NoRiders DEF Survives
  <2> QED
    BY <2>2, <2>3, <2>4, <2>5, <2>6 DEF StageInv
<1>6. CASE TickLearner
  <2>1. Unarmored'
    BY <1>6 DEF TickLearner, LearnerIdle, TakesBack, Gameplay, Beam
  <2>2. StillBody'
    BY <1>6 DEF TickLearner, LearnerIdle, TakesBack, Gameplay, Beam
  <2>3. DriverLives'
    BY <1>6 DEF TickLearner, LearnerIdle, TakesBack, Gameplay, Beam
  <2>4. SceneBodies'
    BY <1>6 DEF TickLearner, LearnerIdle, TakesBack, Gameplay, Beam
  <2>5. WorldHeld'
    BY <1>6 DEF TickLearner, LearnerIdle, TakesBack, Gameplay, Beam
  <2> QED
    BY <2>1, <2>2, <2>3, <2>4, <2>5 DEF StageInv
<1>7. CASE SceneStarts
  <2>1. Unarmored'
    BY <1>7 DEF SceneStarts, BeginScene, Beam, ScriptCalls
  <2>2. StillBody'
    BY <1>7 DEF SceneStarts, BeginScene, Beam, ScriptCalls
  <2>3. DriverLives'
    BY <1>7 DEF SceneStarts, BeginScene, Beam, ScriptCalls
  <2>4. SceneBodies'
    BY <1>7 DEF SceneStarts, BeginScene, Beam, ScriptCalls
  <2>5. WorldHeld'
    BY <1>7 DEF SceneStarts, BeginScene, Beam, ScriptCalls
  <2> QED
    BY <2>1, <2>2, <2>3, <2>4, <2>5 DEF StageInv
<1>8. CASE CapsuleTaken
  <2>1. Unarmored'
    BY <1>8, DriversAreSeats DEF CapsuleTaken, BothLiving, ScriptCalls, CapsuleDriver,
       Drivers
  <2>2. StillBody'
    BY <1>8, DriversAreSeats DEF CapsuleTaken, BothLiving, ScriptCalls, CapsuleDriver,
       Drivers
  <2>3. DriverLives'
    BY <1>8, DriversAreSeats DEF CapsuleTaken, BothLiving, ScriptCalls, CapsuleDriver,
       Drivers
  <2>4. SceneBodies'
    BY <1>8, DriversAreSeats DEF CapsuleTaken, BothLiving, ScriptCalls, CapsuleDriver,
       Drivers
  <2>5. WorldHeld'
    BY <1>8, DriversAreSeats DEF CapsuleTaken, BothLiving, ScriptCalls, CapsuleDriver,
       Drivers
  <2> QED
    BY <2>1, <2>2, <2>3, <2>4, <2>5 DEF StageInv
<1>9. CASE LeftBehind
  <2> DEFINE a == anchor'
  <2>1. /\ a \in Seats /\ current' = a
        /\ pc = "scene" /\ pc' = "transport" /\ ~InScene /\ pending # 1
        /\ Living(0) /\ Living(1) /\ (hp' = [hp EXCEPT ![1] = MaxHp] \/ hp' = hp)
        /\ UNCHANGED <<status, act, deaths, roster, select, buttons, menuOwner, world, place>>
    BY <1>9, LeftBehindRoles
  <2>2. hp'[0] > 0 /\ hp'[1] > 0
    BY <2>1
  <2>3. CASE UNCHANGED <<swap, scene>>
    BY <2>1, <2>2, <2>3
  <2>4. CASE ~UNCHANGED <<swap, scene>>
    <3>1. /\ swap'[a] = 0 /\ sceneOwner' = a /\ ~IsLearner(a)
          /\ sceneFlags' = IF Learner THEN {"LIVE"} ELSE {}
      BY <1>9, <2>4, LeftBehindRoles
    <3>2. CASE a = 0
      BY <2>1, <2>2, <3>1, <3>2
    <3>3. CASE a = 1
      BY <2>1, <2>2, <3>1, <3>3
    <3> QED
      BY <2>1, <3>2, <3>3
  <2> QED
    BY <2>3, <2>4

<1>10. CASE SceneStays
  <2>1. Unarmored'
    BY <1>10 DEF SceneStays
  <2>2. StillBody'
    BY <1>10 DEF SceneStays
  <2>3. DriverLives'
    BY <1>10 DEF SceneStays
  <2>4. SceneBodies'
    BY <1>10 DEF SceneStays
  <2>5. WorldHeld'
    BY <1>10 DEF SceneStays
  <2> QED
    BY <2>1, <2>2, <2>3, <2>4, <2>5 DEF StageInv
<1>11. CASE NoTransport
  <2>1. Unarmored'
    BY <1>11 DEF NoTransport
  <2>2. StillBody'
    BY <1>11 DEF NoTransport
  <2>3. DriverLives'
    BY <1>11 DEF NoTransport
  <2>4. SceneBodies'
    BY <1>11 DEF NoTransport
  <2>5. WorldHeld'
    BY <1>11 DEF NoTransport
  <2> QED
    BY <2>1, <2>2, <2>3, <2>4, <2>5 DEF StageInv
<1>12. CASE TransportPaused
  <2>1. Unarmored'
    BY <1>12 DEF TransportPaused, Transporting
  <2>2. StillBody'
    BY <1>12 DEF TransportPaused, Transporting
  <2>3. DriverLives'
    BY <1>12 DEF TransportPaused, Transporting
  <2>4. SceneBodies'
    BY <1>12 DEF TransportPaused, Transporting
  <2>5. WorldHeld'
    BY <1>12 DEF TransportPaused, Transporting
  <2> QED
    BY <2>1, <2>2, <2>3, <2>4, <2>5 DEF StageInv
<1>13. CASE TransportTick
  <2>1. Unarmored'
    BY <1>13 DEF TransportTick, Transporting, Ticked
  <2>2. StillBody'
    BY <1>13 DEF TransportTick, Transporting, Ticked
  <2>3. DriverLives'
    BY <1>13 DEF TransportTick, Transporting, Ticked
  <2>4. SceneBodies'
    BY <1>13 DEF TransportTick, Transporting, Ticked
  <2>5. WorldHeld'
    BY <1>13 DEF TransportTick, Transporting, Ticked
  <2> QED
    BY <2>1, <2>2, <2>3, <2>4, <2>5 DEF StageInv
<1>14. CASE ReturnWaits
  <2>1. Unarmored'
    BY <1>14 DEF ReturnWaits, Transporting
  <2>2. StillBody'
    BY <1>14 DEF ReturnWaits, Transporting
  <2>3. DriverLives'
    BY <1>14 DEF ReturnWaits, Transporting
  <2>4. SceneBodies'
    BY <1>14 DEF ReturnWaits, Transporting
  <2>5. WorldHeld'
    BY <1>14 DEF ReturnWaits, Transporting
  <2> QED
    BY <2>1, <2>2, <2>3, <2>4, <2>5 DEF StageInv
<1>15. CASE PartnerReturns
  <2>1. Unarmored'
    BY <1>15 DEF PartnerReturns, Transporting, MayReturn, PlaceOther
  <2>2. StillBody'
    BY <1>15 DEF PartnerReturns, Transporting, MayReturn, PlaceOther
  <2>3. DriverLives'
    BY <1>15 DEF PartnerReturns, Transporting, MayReturn, PlaceOther
  <2>4. SceneBodies'
    BY <1>15 DEF PartnerReturns, Transporting, MayReturn, PlaceOther
  <2>5. WorldHeld'
    BY <1>15 DEF PartnerReturns, Transporting, MayReturn, PlaceOther
  <2> QED
    BY <2>1, <2>2, <2>3, <2>4, <2>5 DEF StageInv
<1>16. CASE JoinLeaves
  <2>1. Unarmored'
    BY <1>16 DEF JoinLeaves
  <2>2. StillBody'
    BY <1>16 DEF JoinLeaves
  <2>3. DriverLives'
    BY <1>16 DEF JoinLeaves
  <2>4. SceneBodies'
    BY <1>16 DEF JoinLeaves
  <2>5. WorldHeld'
    BY <1>16 DEF JoinLeaves
  <2> QED
    BY <2>1, <2>2, <2>3, <2>4, <2>5 DEF StageInv
<1>17. CASE JoinTransition
  <2>1. Unarmored'
    BY <1>17, MovingSeat DEF JoinTransition, Ticked
  <2>2. StillBody'
    BY <1>17, MovingSeat DEF JoinTransition, Ticked
  <2>3. DriverLives'
    BY <1>17, MovingSeat DEF JoinTransition, Ticked
  <2>4. SceneBodies'
    BY <1>17, MovingSeat DEF JoinTransition, Ticked
  <2>5. WorldHeld'
    BY <1>17, MovingSeat DEF JoinTransition, Ticked
  <2> QED
    BY <2>1, <2>2, <2>3, <2>4, <2>5 DEF StageInv
<1>18. CASE JoinClosed
  <2>1. Unarmored'
    BY <1>18 DEF JoinClosed, MayJoin, Gameplay
  <2>2. StillBody'
    BY <1>18 DEF JoinClosed, MayJoin, Gameplay
  <2>3. DriverLives'
    BY <1>18 DEF JoinClosed, MayJoin, Gameplay
  <2>4. SceneBodies'
    BY <1>18 DEF JoinClosed, MayJoin, Gameplay
  <2>5. WorldHeld'
    BY <1>18 DEF JoinClosed, MayJoin, Gameplay
  <2> QED
    BY <2>1, <2>2, <2>3, <2>4, <2>5 DEF StageInv
<1>19. ASSUME NEW s \in Seats, FallenWaits(s) PROVE StageInv'
  <2>1. Unarmored'
    BY <1>19 DEF FallenWaits, Serving, SeatStep, MayJoin, Served, NextSeat, Gameplay
  <2>2. StillBody'
    BY <1>19 DEF FallenWaits, Serving, SeatStep, MayJoin, Served, NextSeat, Gameplay
  <2>3. DriverLives'
    BY <1>19 DEF FallenWaits, Serving, SeatStep, MayJoin, Served, NextSeat, Gameplay
  <2>4. SceneBodies'
    BY <1>19 DEF FallenWaits, Serving, SeatStep, MayJoin, Served, NextSeat, Gameplay
  <2>5. WorldHeld'
    BY <1>19 DEF FallenWaits, Serving, SeatStep, MayJoin, Served, NextSeat, Gameplay
  <2> QED
    BY <2>1, <2>2, <2>3, <2>4, <2>5 DEF StageInv
<1>20. ASSUME NEW s \in Seats, FallenReturns(s) PROVE StageInv'
  <2>1. Unarmored'
    BY <1>20 DEF FallenReturns, Serving, SeatStep, MayJoin, Present, PlaceOther, Gameplay
  <2>2. StillBody'
    BY <1>20 DEF FallenReturns, Serving, SeatStep, MayJoin, Present, PlaceOther, Gameplay
  <2>3. DriverLives'
    BY <1>20 DEF FallenReturns, Serving, SeatStep, MayJoin, Present, PlaceOther, Gameplay
  <2>4. SceneBodies'
    BY <1>20 DEF FallenReturns, Serving, SeatStep, MayJoin, Present, PlaceOther, Gameplay
  <2>5. WorldHeld'
    BY <1>20 DEF FallenReturns, Serving, SeatStep, MayJoin, Present, PlaceOther, Gameplay
  <2> QED
    BY <2>1, <2>2, <2>3, <2>4, <2>5 DEF StageInv
<1>21. ASSUME NEW s \in Seats, SeatAlone(s) PROVE StageInv'
  <2>1. Unarmored'
    BY <1>21 DEF SeatAlone, Serving, SeatStep, MayJoin, Served, NextSeat, Gameplay
  <2>2. StillBody'
    BY <1>21 DEF SeatAlone, Serving, SeatStep, MayJoin, Served, NextSeat, Gameplay
  <2>3. DriverLives'
    BY <1>21 DEF SeatAlone, Serving, SeatStep, MayJoin, Served, NextSeat, Gameplay
  <2>4. SceneBodies'
    BY <1>21 DEF SeatAlone, Serving, SeatStep, MayJoin, Served, NextSeat, Gameplay
  <2>5. WorldHeld'
    BY <1>21 DEF SeatAlone, Serving, SeatStep, MayJoin, Served, NextSeat, Gameplay
  <2> QED
    BY <2>1, <2>2, <2>3, <2>4, <2>5 DEF StageInv
<1>22. ASSUME NEW s \in Seats, SeatHolds(s) PROVE StageInv'
  <2>1. Unarmored'
    BY <1>22 DEF SeatHolds, Serving, SeatStep, MayJoin, Served, NextSeat, Gameplay
  <2>2. StillBody'
    BY <1>22 DEF SeatHolds, Serving, SeatStep, MayJoin, Served, NextSeat, Gameplay
  <2>3. DriverLives'
    BY <1>22 DEF SeatHolds, Serving, SeatStep, MayJoin, Served, NextSeat, Gameplay
  <2>4. SceneBodies'
    BY <1>22 DEF SeatHolds, Serving, SeatStep, MayJoin, Served, NextSeat, Gameplay
  <2>5. WorldHeld'
    BY <1>22 DEF SeatHolds, Serving, SeatStep, MayJoin, Served, NextSeat, Gameplay
  <2> QED
    BY <2>1, <2>2, <2>3, <2>4, <2>5 DEF StageInv
<1>23. ASSUME NEW s \in Seats, Withdraws(s) PROVE StageInv'
  <2>1. /\ pc \in {"seat0", "seat1"} /\ ~InScene /\ Moving = {} /\ ~refill /\ script = "none"
        /\ stage = "play" /\ pending # 1 /\ menuOwner = None
        /\ Living(s) /\ Living(Other(s)) /\ (Learner => s = 1)
        /\ UNCHANGED <<status, act, deaths, roster, armed, buttons, menuOwner, world, place>>
    BY <1>23 DEF Withdraws, Serving, SeatStep, MayJoin, Gameplay, Holding, MayWithdraw,
       Present
  <2>2. CASE ~Learner
    <3>1. /\ anchor' = Other(s) /\ current' = Other(s) /\ pc' = "poll"
          /\ swap' = [swap EXCEPT ![s] = 1] /\ UNCHANGED <<hp, scene>>
      BY <1>23, <2>2 DEF Withdraws
    <3> QED
      BY <2>1, <2>2, <3>1
  <2>3. CASE Learner /\ anchor = 1
    <3>1. pc' = "weapons" /\ UNCHANGED <<roles, hp, swap, scene>>
      BY <1>23, <2>3 DEF Withdraws
    <3> QED
      BY <2>1, <2>3, <3>1
  <2>4. CASE Learner /\ anchor = 0
    <3>1. /\ pc' = "weapons" /\ UNCHANGED roles /\ hp' = [hp EXCEPT ![1] = MaxHp]
          /\ swap' = [swap EXCEPT ![1] = 1] /\ sceneOwner' = 0
          /\ sceneFlags' = {"LIVE", "WITHDRAW"}
      BY <1>23, <2>4 DEF Withdraws, Beam
    <3> QED
      BY <2>1, <2>4, <3>1
  <2> QED
    BY <2>2, <2>3, <2>4

<1>24. ASSUME NEW s \in Seats, JoinWaits(s) PROVE StageInv'
  <2>1. Unarmored'
    BY <1>24 DEF JoinWaits, Serving, SeatStep, MayJoin, Served, NextSeat, Outside, Gameplay
  <2>2. StillBody'
    BY <1>24 DEF JoinWaits, Serving, SeatStep, MayJoin, Served, NextSeat, Outside, Gameplay
  <2>3. DriverLives'
    BY <1>24 DEF JoinWaits, Serving, SeatStep, MayJoin, Served, NextSeat, Outside, Gameplay
  <2>4. SceneBodies'
    BY <1>24 DEF JoinWaits, Serving, SeatStep, MayJoin, Served, NextSeat, Outside, Gameplay
  <2>5. WorldHeld'
    BY <1>24 DEF JoinWaits, Serving, SeatStep, MayJoin, Served, NextSeat, Outside, Gameplay
  <2> QED
    BY <2>1, <2>2, <2>3, <2>4, <2>5 DEF StageInv
<1>25. ASSUME NEW s \in Seats, Joins(s) PROVE StageInv'
  <2>1. Unarmored'
    BY <1>25 DEF Joins, Serving, SeatStep, MayJoin, PlaceOther, Outside, Present,
       Automatic, Gameplay
  <2>2. StillBody'
    BY <1>25 DEF Joins, Serving, SeatStep, MayJoin, PlaceOther, Outside, Present,
       Automatic, Gameplay
  <2>3. DriverLives'
    BY <1>25 DEF Joins, Serving, SeatStep, MayJoin, PlaceOther, Outside, Present,
       Automatic, Gameplay
  <2>4. SceneBodies'
    BY <1>25 DEF Joins, Serving, SeatStep, MayJoin, PlaceOther, Outside, Present,
       Automatic, Gameplay
  <2>5. WorldHeld'
    BY <1>25 DEF Joins, Serving, SeatStep, MayJoin, PlaceOther, Outside, Present,
       Automatic, Gameplay
  <2> QED
    BY <2>1, <2>2, <2>3, <2>4, <2>5 DEF StageInv
<1>26. CASE WeaponsTick
  <2>1. Unarmored'
    BY <1>26 DEF WeaponsTick
  <2>2. StillBody'
    BY <1>26 DEF WeaponsTick
  <2>3. DriverLives'
    BY <1>26 DEF WeaponsTick
  <2>4. SceneBodies'
    BY <1>26 DEF WeaponsTick
  <2>5. WorldHeld'
    BY <1>26 DEF WeaponsTick
  <2> QED
    BY <2>1, <2>2, <2>3, <2>4, <2>5 DEF StageInv
<1> QED
  BY <1>1, <1>2, <1>3, <1>4, <1>5, <1>6, <1>7, <1>8, <1>9, <1>10, <1>11, <1>12, <1>13,
     <1>14, <1>15, <1>16, <1>17, <1>18, <1>19, <1>20, <1>21, <1>22, <1>23, <1>24, <1>25,
     <1>26 DEF FrameTick

\* So does the controller's part.
LEMMA StageController ==
    ASSUME PlainStage, TypeOK, LearnerNeverDies, ActorInv, StageInv, Controller
    PROVE  StageInv'
<1> USE DEF PlainStage, TypeOK, LearnerNeverDies, Dying, ActorInv, ActorPlays, Apart, ActorShown,
            ActorSeen, Seen, P1Stands, HostPart, InGame, Living, StageInv, Playing, Early,
            Unarmored,
            StillBody, DriverLives, SceneBodies, WorldHeld, Moving, LiveScene
<1>1. CASE GuestStarts
  <2>1. Unarmored'
    BY <1>1 DEF GuestStarts
  <2>2. StillBody'
    BY <1>1 DEF GuestStarts
  <2>3. DriverLives'
    BY <1>1 DEF GuestStarts
  <2>4. SceneBodies'
    BY <1>1 DEF GuestStarts
  <2>5. WorldHeld'
    BY <1>1 DEF GuestStarts
  <2> QED
    BY <2>1, <2>2, <2>3, <2>4, <2>5 DEF StageInv
<1>2. CASE BodyStays
  <2>1. Unarmored'
    BY <1>2 DEF BodyStays, InController
  <2>2. StillBody'
    BY <1>2 DEF BodyStays, InController
  <2>3. DriverLives'
    BY <1>2 DEF BodyStays, InController
  <2>4. SceneBodies'
    BY <1>2 DEF BodyStays, InController
  <2>5. WorldHeld'
    BY <1>2 DEF BodyStays, InController
  <2> QED
    BY <2>1, <2>2, <2>3, <2>4, <2>5 DEF StageInv
<1>3. CASE TerrainHurts
  <2>1. Unarmored'
    BY <1>3 DEF TerrainHurts, InController, Exposed
  <2>2. StillBody'
    BY <1>3 DEF TerrainHurts, InController, Exposed
  <2>3. DriverLives'
    BY <1>3 DEF TerrainHurts, InController, Exposed
  <2>4. SceneBodies'
    BY <1>3 DEF TerrainHurts, InController, Exposed
  <2>5. WorldHeld'
    BY <1>3 DEF TerrainHurts, InController, Exposed
  <2> QED
    BY <2>1, <2>2, <2>3, <2>4, <2>5 DEF StageInv
<1>4. CASE DeathStarts
  <2>1. Unarmored'
    BY <1>4 DEF DeathStarts, InController, DiesAlone
  <2>2. StillBody'
    BY <1>4 DEF DeathStarts, InController, DiesAlone
  <2>3. DriverLives'
    BY <1>4 DEF DeathStarts, InController, DiesAlone
  <2>4. SceneBodies'
    BY <1>4 DEF DeathStarts, InController, DiesAlone
  <2>5. WorldHeld'
    BY <1>4 DEF DeathStarts, InController, DiesAlone
  <2> QED
    BY <2>1, <2>2, <2>3, <2>4, <2>5 DEF StageInv
<1>5. CASE DeathEnds
  <2>1. Unarmored'
    BY <1>5 DEF DeathEnds, InController
  <2>2. StillBody'
    BY <1>5 DEF DeathEnds, InController
  <2>3. DriverLives'
    BY <1>5 DEF DeathEnds, InController
  <2>4. SceneBodies'
    BY <1>5 DEF DeathEnds, InController
  <2>5. WorldHeld'
    BY <1>5 DEF DeathEnds, InController
  <2> QED
    BY <2>1, <2>2, <2>3, <2>4, <2>5 DEF StageInv
<1>6. CASE SecondPass
  <2>1. Unarmored'
    BY <1>6 DEF SecondPass, RunsPartner
  <2>2. StillBody'
    BY <1>6 DEF SecondPass, RunsPartner
  <2>3. DriverLives'
    BY <1>6 DEF SecondPass, RunsPartner
  <2>4. SceneBodies'
    BY <1>6 DEF SecondPass, RunsPartner
  <2>5. WorldHeld'
    BY <1>6 DEF SecondPass, RunsPartner
  <2> QED
    BY <2>1, <2>2, <2>3, <2>4, <2>5 DEF StageInv
<1>7. CASE ControllerReturns
  <2>1. Unarmored'
    BY <1>7 DEF ControllerReturns, RunsPartner
  <2>2. StillBody'
    BY <1>7 DEF ControllerReturns, RunsPartner
  <2>3. DriverLives'
    BY <1>7 DEF ControllerReturns, RunsPartner
  <2>4. SceneBodies'
    BY <1>7 DEF ControllerReturns, RunsPartner
  <2>5. WorldHeld'
    BY <1>7 DEF ControllerReturns, RunsPartner
  <2> QED
    BY <2>1, <2>2, <2>3, <2>4, <2>5 DEF StageInv
<1> QED
  BY <1>1, <1>2, <1>3, <1>4, <1>5, <1>6, <1>7 DEF Controller

\* So does the rest of the guest's frame.
LEMMA StageWorld ==
    ASSUME PlainStage, TypeOK, LearnerNeverDies, ActorInv, StageInv, WorldMoves
    PROVE  StageInv'
<1> USE DEF PlainStage, TypeOK, LearnerNeverDies, Dying, ActorInv, ActorPlays, Apart, ActorShown,
            ActorSeen, Seen, P1Stands, HostPart, InGame, Living, StageInv, Playing, Early,
            Unarmored,
            StillBody, DriverLives, SceneBodies, WorldHeld, Moving, LiveScene
<1>1. CASE Contact
  <2>1. Unarmored'
    BY <1>1 DEF Contact, Running, Hit, Touched, Exposed
  <2>2. StillBody'
    BY <1>1 DEF Contact, Running, Hit, Touched, Exposed
  <2>3. DriverLives'
    BY <1>1 DEF Contact, Running, Hit, Touched, Exposed
  <2>4. SceneBodies'
    BY <1>1 DEF Contact, Running, Hit, Touched, Exposed
  <2>5. WorldHeld'
    BY <1>1 DEF Contact, Running, Hit, Touched, Exposed
  <2> QED
    BY <2>1, <2>2, <2>3, <2>4, <2>5 DEF StageInv
<1>2. CASE Crushed
  <2>1. Unarmored'
    BY <1>2 DEF Crushed, Running, Hit, Touched, Exposed
  <2>2. StillBody'
    BY <1>2 DEF Crushed, Running, Hit, Touched, Exposed
  <2>3. DriverLives'
    BY <1>2 DEF Crushed, Running, Hit, Touched, Exposed
  <2>4. SceneBodies'
    BY <1>2 DEF Crushed, Running, Hit, Touched, Exposed
  <2>5. WorldHeld'
    BY <1>2 DEF Crushed, Running, Hit, Touched, Exposed
  <2> QED
    BY <2>1, <2>2, <2>3, <2>4, <2>5 DEF StageInv
<1>3. CASE Drained
  <2>1. Unarmored'
    BY <1>3 DEF Drained, Running, Exposed
  <2>2. StillBody'
    BY <1>3 DEF Drained, Running, Exposed
  <2>3. DriverLives'
    BY <1>3 DEF Drained, Running, Exposed
  <2>4. SceneBodies'
    BY <1>3 DEF Drained, Running, Exposed
  <2>5. WorldHeld'
    BY <1>3 DEF Drained, Running, Exposed
  <2> QED
    BY <2>1, <2>2, <2>3, <2>4, <2>5 DEF StageInv
<1>4. CASE ArmorLeft
  <2>1. Unarmored'
    BY <1>4 DEF ArmorLeft, Running
  <2>2. StillBody'
    BY <1>4 DEF ArmorLeft, Running
  <2>3. DriverLives'
    BY <1>4 DEF ArmorLeft, Running
  <2>4. SceneBodies'
    BY <1>4 DEF ArmorLeft, Running
  <2>5. WorldHeld'
    BY <1>4 DEF ArmorLeft, Running
  <2> QED
    BY <2>1, <2>2, <2>3, <2>4, <2>5 DEF StageInv
<1>5. CASE ScriptStarts
  <2>1. Unarmored'
    BY <1>5 DEF ScriptStarts, Running
  <2>2. StillBody'
    BY <1>5 DEF ScriptStarts, Running
  <2>3. DriverLives'
    BY <1>5 DEF ScriptStarts, Running
  <2>4. SceneBodies'
    BY <1>5 DEF ScriptStarts, Running
  <2>5. WorldHeld'
    BY <1>5 DEF ScriptStarts, Running
  <2> QED
    BY <2>1, <2>2, <2>3, <2>4, <2>5 DEF StageInv
<1>6. CASE HoldStarts
  <2>1. Unarmored'
    BY <1>6 DEF HoldStarts, Running
  <2>2. StillBody'
    BY <1>6 DEF HoldStarts, Running
  <2>3. DriverLives'
    BY <1>6 DEF HoldStarts, Running
  <2>4. SceneBodies'
    BY <1>6 DEF HoldStarts, Running
  <2>5. WorldHeld'
    BY <1>6 DEF HoldStarts, Running
  <2> QED
    BY <2>1, <2>2, <2>3, <2>4, <2>5 DEF StageInv
<1>7. CASE ScriptEnds
  <2>1. Unarmored'
    BY <1>7 DEF ScriptEnds
  <2>2. StillBody'
    BY <1>7 DEF ScriptEnds
  <2>3. DriverLives'
    BY <1>7 DEF ScriptEnds
  <2>4. SceneBodies'
    BY <1>7 DEF ScriptEnds
  <2>5. WorldHeld'
    BY <1>7 DEF ScriptEnds
  <2> QED
    BY <2>1, <2>2, <2>3, <2>4, <2>5 DEF StageInv
<1>8. CASE Farewell
  <2>1. Unarmored'
    BY <1>8 DEF Farewell, Running, BeginScene, Beam
  <2>2. StillBody'
    BY <1>8 DEF Farewell, Running, BeginScene, Beam
  <2>3. DriverLives'
    BY <1>8 DEF Farewell, Running, BeginScene, Beam
  <2>4. SceneBodies'
    BY <1>8 DEF Farewell, Running, BeginScene, Beam
  <2>5. WorldHeld'
    BY <1>8 DEF Farewell, Running, BeginScene, Beam
  <2> QED
    BY <2>1, <2>2, <2>3, <2>4, <2>5 DEF StageInv
<1>9. CASE BossChanges
  <2>1. Unarmored'
    BY <1>9 DEF BossChanges, Running
  <2>2. StillBody'
    BY <1>9 DEF BossChanges, Running
  <2>3. DriverLives'
    BY <1>9 DEF BossChanges, Running
  <2>4. SceneBodies'
    BY <1>9 DEF BossChanges, Running
  <2>5. WorldHeld'
    BY <1>9 DEF BossChanges, Running
  <2> QED
    BY <2>1, <2>2, <2>3, <2>4, <2>5 DEF StageInv
<1>10. CASE OneUp
  <2>1. Unarmored'
    BY <1>10 DEF OneUp, Running
  <2>2. StillBody'
    BY <1>10 DEF OneUp, Running
  <2>3. DriverLives'
    BY <1>10 DEF OneUp, Running
  <2>4. SceneBodies'
    BY <1>10 DEF OneUp, Running
  <2>5. WorldHeld'
    BY <1>10 DEF OneUp, Running
  <2> QED
    BY <2>1, <2>2, <2>3, <2>4, <2>5 DEF StageInv
<1>11. CASE RefillStarts
  <2>1. Unarmored'
    BY <1>11 DEF RefillStarts, Running
  <2>2. StillBody'
    BY <1>11 DEF RefillStarts, Running
  <2>3. DriverLives'
    BY <1>11 DEF RefillStarts, Running
  <2>4. SceneBodies'
    BY <1>11 DEF RefillStarts, Running
  <2>5. WorldHeld'
    BY <1>11 DEF RefillStarts, Running
  <2> QED
    BY <2>1, <2>2, <2>3, <2>4, <2>5 DEF StageInv
<1>12. CASE RefillEnds
  <2>1. Unarmored'
    BY <1>12 DEF RefillEnds
  <2>2. StillBody'
    BY <1>12 DEF RefillEnds
  <2>3. DriverLives'
    BY <1>12 DEF RefillEnds
  <2>4. SceneBodies'
    BY <1>12 DEF RefillEnds
  <2>5. WorldHeld'
    BY <1>12 DEF RefillEnds
  <2> QED
    BY <2>1, <2>2, <2>3, <2>4, <2>5 DEF StageInv
<1>13. CASE MenuCloses
  <2>1. Unarmored'
    BY <1>13 DEF MenuCloses
  <2>2. StillBody'
    BY <1>13 DEF MenuCloses
  <2>3. DriverLives'
    BY <1>13 DEF MenuCloses
  <2>4. SceneBodies'
    BY <1>13 DEF MenuCloses
  <2>5. WorldHeld'
    BY <1>13 DEF MenuCloses
  <2> QED
    BY <2>1, <2>2, <2>3, <2>4, <2>5 DEF StageInv
<1>14. CASE StageClears
  <2>1. Unarmored'
    BY <1>14 DEF StageClears, Running
  <2>2. StillBody'
    BY <1>14 DEF StageClears, Running
  <2>3. DriverLives'
    BY <1>14 DEF StageClears, Running
  <2>4. SceneBodies'
    BY <1>14 DEF StageClears, Running
  <2>5. WorldHeld'
    BY <1>14 DEF StageClears, Running
  <2> QED
    BY <2>1, <2>2, <2>3, <2>4, <2>5 DEF StageInv
<1>15. CASE StageLeaves
  <2>1. Unarmored'
    BY <1>15 DEF StageLeaves
  <2>2. StillBody'
    BY <1>15 DEF StageLeaves
  <2>3. DriverLives'
    BY <1>15 DEF StageLeaves
  <2>4. SceneBodies'
    BY <1>15 DEF StageLeaves
  <2>5. WorldHeld'
    BY <1>15 DEF StageLeaves
  <2> QED
    BY <2>1, <2>2, <2>3, <2>4, <2>5 DEF StageInv
<1>16. CASE TeamRestarts
  <2>1. Unarmored'
    BY <1>16 DEF TeamRestarts
  <2>2. StillBody'
    BY <1>16 DEF TeamRestarts
  <2>3. DriverLives'
    BY <1>16 DEF TeamRestarts
  <2>4. SceneBodies'
    BY <1>16 DEF TeamRestarts
  <2>5. WorldHeld'
    BY <1>16 DEF TeamRestarts
  <2> QED
    BY <2>1, <2>2, <2>3, <2>4, <2>5 DEF StageInv
<1>17. CASE StageReady
  <2>1. Unarmored'
    BY <1>17 DEF StageReady
  <2>2. StillBody'
    BY <1>17 DEF StageReady
  <2>3. DriverLives'
    BY <1>17 DEF StageReady
  <2>4. SceneBodies'
    BY <1>17 DEF StageReady
  <2>5. WorldHeld'
    BY <1>17 DEF StageReady
  <2> QED
    BY <2>1, <2>2, <2>3, <2>4, <2>5 DEF StageInv
<1>18. ASSUME NEW s \in Seats, Falls(s) PROVE StageInv'
  <2>1. Unarmored'
    BY <1>18 DEF Falls, Running, Exposed
  <2>2. StillBody'
    BY <1>18 DEF Falls, Running, Exposed
  <2>3. DriverLives'
    BY <1>18 DEF Falls, Running, Exposed
  <2>4. SceneBodies'
    BY <1>18 DEF Falls, Running, Exposed
  <2>5. WorldHeld'
    BY <1>18 DEF Falls, Running, Exposed
  <2> QED
    BY <2>1, <2>2, <2>3, <2>4, <2>5 DEF StageInv
<1>19. ASSUME NEW s \in Seats, Boards(s) PROVE StageInv'
  <2>1. Unarmored'
    BY <1>19 DEF Boards, Running
  <2>2. StillBody'
    BY <1>19 DEF Boards, Running
  <2>3. DriverLives'
    BY <1>19 DEF Boards, Running
  <2>4. SceneBodies'
    BY <1>19 DEF Boards, Running
  <2>5. WorldHeld'
    BY <1>19 DEF Boards, Running
  <2> QED
    BY <2>1, <2>2, <2>3, <2>4, <2>5 DEF StageInv
<1>20. ASSUME NEW s \in Seats, NEW both, Enters(s, both) PROVE StageInv'
  <2>1. Unarmored'
    BY <1>20 DEF Enters, Running, BeginScene, Beam, Exposed
  <2>2. StillBody'
    BY <1>20 DEF Enters, Running, BeginScene, Beam, Exposed
  <2>3. DriverLives'
    BY <1>20 DEF Enters, Running, BeginScene, Beam, Exposed
  <2>4. SceneBodies'
    BY <1>20 DEF Enters, Running, BeginScene, Beam, Exposed
  <2>5. WorldHeld'
    BY <1>20 DEF Enters, Running, BeginScene, Beam, Exposed
  <2> QED
    BY <2>1, <2>2, <2>3, <2>4, <2>5 DEF StageInv
<1>21. ASSUME NEW s \in Seats, MenuOpens(s) PROVE StageInv'
  <2>1. Unarmored'
    BY <1>21 DEF MenuOpens, Running
  <2>2. StillBody'
    BY <1>21 DEF MenuOpens, Running
  <2>3. DriverLives'
    BY <1>21 DEF MenuOpens, Running
  <2>4. SceneBodies'
    BY <1>21 DEF MenuOpens, Running
  <2>5. WorldHeld'
    BY <1>21 DEF MenuOpens, Running
  <2> QED
    BY <2>1, <2>2, <2>3, <2>4, <2>5 DEF StageInv
<1> QED
  BY <1>1, <1>2, <1>3, <1>4, <1>5, <1>6, <1>7, <1>8, <1>9, <1>10, <1>11, <1>12, <1>13,
     <1>14, <1>15, <1>16, <1>17, <1>18, <1>19, <1>20, <1>21 DEF WorldMoves, EntersDoor, RidesLift

LEMMA StageInit == Init => StageInv
  BY DEF Init, StageInv, Unarmored, StillBody, DriverLives, SceneBodies, WorldHeld, Moving, Playing,
     HostPart, Living

LEMMA StageKept ==
    ASSUME PlainStage
    PROVE  TypeOK /\ LearnerNeverDies /\ ActorInv /\ StageInv /\ [Next]_vars => StageInv'
<1> SUFFICES ASSUME TypeOK, LearnerNeverDies, ActorInv, StageInv, [Next]_vars PROVE StageInv'
  OBVIOUS
<1> USE DEF StageInv, Unarmored, StillBody, DriverLives, SceneBodies, WorldHeld, Moving, Playing,
            HostPart, Living, Early, LiveScene
<1>1. CASE Poll
  BY <1>1 DEF TypeOK, Poll
<1>2. CASE FrameTick
  BY <1>2, StageFrame
<1>3. CASE Controller
  BY <1>3, StageController
<1>4. CASE WorldMoves
  BY <1>4, StageWorld
<1>5. CASE EndFrame
  BY <1>5 DEF TypeOK, EndFrame, AllDead, ActorInv, ActorShown, ActorPlays
<1>6. CASE UNCHANGED vars
  BY <1>6 DEF vars
<1> QED
  BY <1>1, <1>2, <1>3, <1>4, <1>5, <1>6 DEF Next

LEMMA StageAlways ==
    ASSUME PlainStage
    PROVE  Spec => []StageInv
  BY StageInit, StageKept, ActorAlways, TypeCorrect, LearnerSafe, PTL DEF Spec

\* However withdrawals, returns, deaths, learners' transports and scenes follow
\* each other, the guest never runs a stage without a player in it.
THEOREM StageNeverEmptied ==
    ASSUME PlainStage
    PROVE  Spec => []NeverEmptyStage
<1>1. TypeOK /\ StageInv => NeverEmptyStage
  <2> SUFFICES ASSUME TypeOK, StageInv, pc = "guest", InGame PROVE NeverEmptyStage
    BY DEF NeverEmptyStage
  <2>1. Living(anchor) /\ anchor \in Seats
    BY DEF TypeOK, StageInv, DriverLives, Playing, InGame
  <2>2. swap[anchor] = 0
    <3>1. CASE InScene
      BY <3>1 DEF StageInv, SceneBodies, Playing, InGame
    <3>2. CASE ~InScene
      BY <2>1, <3>2 DEF StageInv, WorldHeld, Playing, InGame, Early, Moving
    <3> QED
      BY <3>1, <3>2
  <2> QED
    BY <2>1, <2>2 DEF NeverEmptyStage
<1> QED
  BY <1>1, StageAlways, TypeCorrect, PTL

\* Nothing puts a dying player back on his feet: the partner whom a scene
\* returns was alive when it took him, and is alive still.
THEOREM DyingAlwaysFinishes ==
    ASSUME PlainStage
    PROVE  Spec => DyingFinishes
<1> DEFINE Doomed(s) == status[s] = "alive" /\ Dying(s) /\ ~IsLearner(s) /\ pending # 1
<1>1. TypeOK /\ ActorInv /\ StageInv /\ [Next]_vars
        => \A s \in Seats : Doomed(s) => Dying(s)' \/ stage # "play"
  <2> SUFFICES ASSUME TypeOK, ActorInv, StageInv, [Next]_vars, NEW s \in Seats, Doomed(s),
                      stage = "play"
               PROVE  Dying(s)'
    OBVIOUS
  <2> USE DEF Dying
  <2>1. hp[s] = 0
    BY DEF ActorInv, ActorPlays
  <2>2. CASE PartnerReturns
    BY <2>1, <2>2 DEF PartnerReturns, PlaceOther, Transporting, StageInv, SceneBodies, Playing,
       Living, TypeOK
  <2>3. ASSUME NEW t \in Seats, FallenReturns(t) \/ Joins(t) PROVE Dying(s)'
    BY <2>3 DEF FallenReturns, Joins, Outside, PlaceOther, TypeOK
  <2>4. CASE TerrainHurts \/ DeathStarts \/ DeathEnds
    BY <2>4 DEF TerrainHurts, DeathStarts, DeathEnds, TypeOK
  <2>5. CASE Contact \/ Crushed
    BY <2>5 DEF Contact, Crushed, Hit, TypeOK
  <2>6. CASE Drained \/ ArmorLeft \/ StageReady
    BY <2>6 DEF Drained, ArmorLeft, StageReady, Exposed, TypeOK
  <2>7. ASSUME NEW t \in Seats, Falls(t) \/ Boards(t) PROVE Dying(s)'
    BY <2>7 DEF Falls, Boards, TypeOK
  <2>8. CASE UNCHANGED act
    BY <2>8
  <2>9. \/ PartnerReturns \/ TerrainHurts \/ DeathStarts \/ DeathEnds \/ Contact \/ Crushed
        \/ Drained \/ ArmorLeft \/ StageReady \/ UNCHANGED act
        \/ \E t \in Seats : FallenReturns(t) \/ Joins(t) \/ Falls(t) \/ Boards(t)
    <3>1. FrameTick => \/ PartnerReturns \/ UNCHANGED act
                       \/ \E t \in Seats : FallenReturns(t) \/ Joins(t)
      BY DEF FrameTick, TickParked, TickAway, TickEntry, TickPlay, TickOwner, TickLearner,
         SceneStarts, CapsuleTaken, LeftBehind, SceneStays, NoTransport, TransportPaused,
         TransportTick, ReturnWaits, JoinLeaves, JoinTransition, JoinClosed, FallenWaits,
         SeatAlone, SeatHolds, Withdraws, JoinWaits, Served, WeaponsTick
    <3>2. Controller => TerrainHurts \/ DeathStarts \/ DeathEnds \/ UNCHANGED act
      BY DEF Controller, GuestStarts, BodyStays, SecondPass, ControllerReturns
    <3>3. WorldMoves => \/ Contact \/ Crushed \/ Drained \/ ArmorLeft \/ StageReady \/ UNCHANGED act
                        \/ \E t \in Seats : Falls(t) \/ Boards(t)
      BY DEF WorldMoves, ScriptStarts, HoldStarts, ScriptEnds, Farewell, BossChanges, OneUp,
         RefillStarts, RefillEnds, MenuCloses, StageClears, StageLeaves, TeamRestarts,
         EntersDoor, RidesLift, Enters, MenuOpens
    <3> QED
      BY <3>1, <3>2, <3>3 DEF Next, Poll, EndFrame, vars
  <2> QED
    BY <2>2, <2>3, <2>4, <2>5, <2>6, <2>7, <2>8, <2>9
<1>2. [][\A s \in Seats : Doomed(s) => Dying(s)' \/ stage # "play"]_vars => DyingFinishes
  BY PTL DEF DyingFinishes
<1> QED
  BY <1>1, <1>2, StageAlways, ActorAlways, TypeCorrect, PTL DEF Spec
--------------------------------------------------------------------------------
\* The pilot of the ride armor.  At most one living seat is in it, the first part
\* of the tick lets him drive, and the tick may take the world from him only by
\* beaming him away from below the screen, which holds the guest back.  A
\* capsule hands the world to X whoever rides: it is left out.
Rides(s) == act[s] = "armor" /\ Living(s)
OnePilot ==
    Playing => \A s \in Seats : act[s] = "armor" /\ status[s] = "alive" =>
        /\ occupied /\ hp[s] > 0
        /\ ~(act[Other(s)] = "armor" /\ status[Other(s)] = "alive")
FallenGone == Playing => \A s \in Seats : status[s] = "fallen" => act[s] # "armor"

\* The pilot has been beamed away from below the other one's screen.
FetchedAway == pc = "transport" /\ InScene /\ scenePhase = 1 /\ ~LiveScene
PilotLeads ==
    Playing /\ pending = 0 /\ menuOwner = None /\ pc \in HostPart \cup {"guest"} =>
        \A s \in Seats : Rides(s) => anchor = s \/ FetchedAway
PilotInv == OnePilot /\ FallenGone /\ PilotLeads

LEMMA PilotFrame ==
    ASSUME "capsule" \notin World, TypeOK, LearnerNeverDies, ActorInv, PilotInv, FrameTick
    PROVE  PilotInv'
<1> USE DEF TypeOK, LearnerNeverDies, Dying, ActorInv, ActorPlays, Apart, ActorShown, ActorSeen,
            Seen, P1Stands, HostPart, InGame, Living, Playing, PilotInv, OnePilot, FallenGone,
            PilotLeads, FetchedAway, Rides, LiveScene
<1>1. CASE TickParked
  <2>1. OnePilot'
    BY <1>1 DEF TickParked, NoHolds
  <2>2. FallenGone'
    BY <1>1 DEF TickParked, NoHolds
  <2>3. PilotLeads'
    BY <1>1 DEF TickParked, NoHolds
  <2> QED
    BY <2>1, <2>2, <2>3 DEF PilotInv
<1>2. CASE TickAway
  <2>1. OnePilot'
    BY <1>2 DEF TickAway
  <2>2. FallenGone'
    BY <1>2 DEF TickAway
  <2>3. PilotLeads'
    BY <1>2 DEF TickAway
  <2> QED
    BY <2>1, <2>2, <2>3 DEF PilotInv
<1>3. CASE TickEntry
  <2>1. OnePilot'
    BY <1>3 DEF TickEntry, EntersStage, InPlay
  <2>2. FallenGone'
    BY <1>3 DEF TickEntry, EntersStage, InPlay
  <2>3. PilotLeads'
    BY <1>3 DEF TickEntry, EntersStage, InPlay
  <2> QED
    BY <2>1, <2>2, <2>3 DEF PilotInv
<1>4. CASE TickPlay
  <2>1. OnePilot'
    BY <1>4 DEF TickPlay, EntersStage, InPlay
  <2>2. FallenGone'
    BY <1>4 DEF TickPlay, EntersStage, InPlay
  <2>3. PilotLeads'
    BY <1>4 DEF TickPlay, EntersStage, InPlay
  <2> QED
    BY <2>1, <2>2, <2>3 DEF PilotInv
<1>5. CASE TickOwner
  <2>1. /\ UNCHANGED <<bodies, roster, scene, menuOwner, world>> /\ pc = "owner"
        /\ pc' \in {"guest", "learner"}
    BY <1>5 DEF TickOwner
  <2>2. OnePilot'
    BY <2>1
  <2>3. FallenGone'
    BY <2>1
  <2>4. ASSUME Playing, pending = 0, NEW s \in Seats, Rides(s)
        PROVE  anchor' = s
    <3>1. Riders = {s}
      BY <2>4 DEF Riders
    <3>2. Cardinality(Riders) = 1 /\ (CHOOSE r \in Riders : TRUE) = s
      BY <3>1, FS_Singleton
    <3> DEFINE rider == Cardinality(Riders) = 1
               pilot == IF rider THEN CHOOSE r \in Riders : TRUE ELSE anchor
               shown == IF rider THEN pilot ELSE current
    <3>3. anchor' = IF Survives(pilot, shown) THEN Other(pilot) ELSE pilot
      BY <1>5 DEF TickOwner
    <3>4. pilot = s
      BY <3>2
    <3> HIDE DEF pilot, shown
    <3> QED
      BY <2>4, <3>3, <3>4 DEF Survives
  <2>5. PilotLeads'
    BY <2>1, <2>4
  <2> QED
    BY <2>2, <2>3, <2>5 DEF PilotInv

<1>6. CASE TickLearner
  <2>1. OnePilot'
    BY <1>6 DEF TickLearner, LearnerIdle, TakesBack, Gameplay, Beam
  <2>2. FallenGone'
    BY <1>6 DEF TickLearner, LearnerIdle, TakesBack, Gameplay, Beam
  <2>3. PilotLeads'
    BY <1>6 DEF TickLearner, LearnerIdle, TakesBack, Gameplay, Beam
  <2> QED
    BY <2>1, <2>2, <2>3 DEF PilotInv
<1>7. CASE SceneStarts
  <2>1. OnePilot'
    BY <1>7 DEF SceneStarts, BeginScene, Beam, ScriptCalls
  <2>2. FallenGone'
    BY <1>7 DEF SceneStarts, BeginScene, Beam, ScriptCalls
  <2>3. PilotLeads'
    BY <1>7 DEF SceneStarts, BeginScene, Beam, ScriptCalls
  <2> QED
    BY <2>1, <2>2, <2>3 DEF PilotInv
<1>8. CASE CapsuleTaken
  <2>1. OnePilot'
    BY <1>8, DriversAreSeats DEF CapsuleTaken, BothLiving, ScriptCalls, CapsuleDriver,
       Drivers
  <2>2. FallenGone'
    BY <1>8, DriversAreSeats DEF CapsuleTaken, BothLiving, ScriptCalls, CapsuleDriver,
       Drivers
  <2>3. PilotLeads'
    BY <1>8, DriversAreSeats DEF CapsuleTaken, BothLiving, ScriptCalls, CapsuleDriver,
       Drivers
  <2> QED
    BY <2>1, <2>2, <2>3 DEF PilotInv
<1>9. CASE LeftBehind
  <2>1. OnePilot'
    BY <1>9, DriversAreSeats DEF LeftBehind, BothLiving, ScriptCalls, Beam,
       CapsuleDriver, Drivers
  <2>2. FallenGone'
    BY <1>9, DriversAreSeats DEF LeftBehind, BothLiving, ScriptCalls, Beam,
       CapsuleDriver, Drivers
  <2>3. PilotLeads'
    BY <1>9, DriversAreSeats DEF LeftBehind, BothLiving, ScriptCalls, Beam,
       CapsuleDriver, Drivers
  <2> QED
    BY <2>1, <2>2, <2>3 DEF PilotInv
<1>10. CASE SceneStays
  <2>1. OnePilot'
    BY <1>10 DEF SceneStays
  <2>2. FallenGone'
    BY <1>10 DEF SceneStays
  <2>3. PilotLeads'
    BY <1>10 DEF SceneStays
  <2> QED
    BY <2>1, <2>2, <2>3 DEF PilotInv
<1>11. CASE NoTransport
  <2>1. OnePilot'
    BY <1>11 DEF NoTransport
  <2>2. FallenGone'
    BY <1>11 DEF NoTransport
  <2>3. PilotLeads'
    BY <1>11 DEF NoTransport
  <2> QED
    BY <2>1, <2>2, <2>3 DEF PilotInv
<1>12. CASE TransportPaused
  <2>1. OnePilot'
    BY <1>12 DEF TransportPaused, Transporting
  <2>2. FallenGone'
    BY <1>12 DEF TransportPaused, Transporting
  <2>3. PilotLeads'
    BY <1>12 DEF TransportPaused, Transporting
  <2> QED
    BY <2>1, <2>2, <2>3 DEF PilotInv
<1>13. CASE TransportTick
  <2>1. OnePilot'
    BY <1>13 DEF TransportTick, Transporting, Ticked
  <2>2. FallenGone'
    BY <1>13 DEF TransportTick, Transporting, Ticked
  <2>3. PilotLeads'
    BY <1>13 DEF TransportTick, Transporting, Ticked
  <2> QED
    BY <2>1, <2>2, <2>3 DEF PilotInv
<1>14. CASE ReturnWaits
  <2>1. OnePilot'
    BY <1>14 DEF ReturnWaits, Transporting
  <2>2. FallenGone'
    BY <1>14 DEF ReturnWaits, Transporting
  <2>3. PilotLeads'
    BY <1>14 DEF ReturnWaits, Transporting
  <2> QED
    BY <2>1, <2>2, <2>3 DEF PilotInv
<1>15. CASE PartnerReturns
  <2>1. OnePilot'
    BY <1>15 DEF PartnerReturns, Transporting, MayReturn, PlaceOther
  <2>2. FallenGone'
    BY <1>15 DEF PartnerReturns, Transporting, MayReturn, PlaceOther
  <2>3. PilotLeads'
    BY <1>15 DEF PartnerReturns, Transporting, MayReturn, PlaceOther
  <2> QED
    BY <2>1, <2>2, <2>3 DEF PilotInv
<1>16. CASE JoinLeaves
  <2>1. OnePilot'
    BY <1>16 DEF JoinLeaves
  <2>2. FallenGone'
    BY <1>16 DEF JoinLeaves
  <2>3. PilotLeads'
    BY <1>16 DEF JoinLeaves
  <2> QED
    BY <2>1, <2>2, <2>3 DEF PilotInv
<1>17. CASE JoinTransition
  <2>1. OnePilot'
    BY <1>17, MovingSeat DEF JoinTransition, Ticked, Moving
  <2>2. FallenGone'
    BY <1>17, MovingSeat DEF JoinTransition, Ticked, Moving
  <2>3. PilotLeads'
    BY <1>17, MovingSeat DEF JoinTransition, Ticked, Moving
  <2> QED
    BY <2>1, <2>2, <2>3 DEF PilotInv
<1>18. CASE JoinClosed
  <2>1. OnePilot'
    BY <1>18 DEF JoinClosed, MayJoin, Gameplay
  <2>2. FallenGone'
    BY <1>18 DEF JoinClosed, MayJoin, Gameplay
  <2>3. PilotLeads'
    BY <1>18 DEF JoinClosed, MayJoin, Gameplay
  <2> QED
    BY <2>1, <2>2, <2>3 DEF PilotInv
<1>19. ASSUME NEW s \in Seats, FallenWaits(s) PROVE PilotInv'
  <2>1. OnePilot'
    BY <1>19 DEF FallenWaits, Serving, SeatStep, MayJoin, Served, NextSeat, Gameplay
  <2>2. FallenGone'
    BY <1>19 DEF FallenWaits, Serving, SeatStep, MayJoin, Served, NextSeat, Gameplay
  <2>3. PilotLeads'
    BY <1>19 DEF FallenWaits, Serving, SeatStep, MayJoin, Served, NextSeat, Gameplay
  <2> QED
    BY <2>1, <2>2, <2>3 DEF PilotInv
<1>20. ASSUME NEW s \in Seats, FallenReturns(s) PROVE PilotInv'
  <2>1. OnePilot'
    BY <1>20 DEF FallenReturns, Serving, SeatStep, MayJoin, Present, PlaceOther, Gameplay
  <2>2. FallenGone'
    BY <1>20 DEF FallenReturns, Serving, SeatStep, MayJoin, Present, PlaceOther, Gameplay
  <2>3. PilotLeads'
    BY <1>20 DEF FallenReturns, Serving, SeatStep, MayJoin, Present, PlaceOther, Gameplay
  <2> QED
    BY <2>1, <2>2, <2>3 DEF PilotInv
<1>21. ASSUME NEW s \in Seats, SeatAlone(s) PROVE PilotInv'
  <2>1. OnePilot'
    BY <1>21 DEF SeatAlone, Serving, SeatStep, MayJoin, Served, NextSeat, Gameplay
  <2>2. FallenGone'
    BY <1>21 DEF SeatAlone, Serving, SeatStep, MayJoin, Served, NextSeat, Gameplay
  <2>3. PilotLeads'
    BY <1>21 DEF SeatAlone, Serving, SeatStep, MayJoin, Served, NextSeat, Gameplay
  <2> QED
    BY <2>1, <2>2, <2>3 DEF PilotInv
<1>22. ASSUME NEW s \in Seats, SeatHolds(s) PROVE PilotInv'
  <2>1. OnePilot'
    BY <1>22 DEF SeatHolds, Serving, SeatStep, MayJoin, Served, NextSeat, Gameplay
  <2>2. FallenGone'
    BY <1>22 DEF SeatHolds, Serving, SeatStep, MayJoin, Served, NextSeat, Gameplay
  <2>3. PilotLeads'
    BY <1>22 DEF SeatHolds, Serving, SeatStep, MayJoin, Served, NextSeat, Gameplay
  <2> QED
    BY <2>1, <2>2, <2>3 DEF PilotInv
<1>23. ASSUME NEW s \in Seats, Withdraws(s) PROVE PilotInv'
  <2>1. OnePilot'
    BY <1>23 DEF Withdraws, Serving, SeatStep, MayJoin, Beam, Present, Gameplay,
       Holding, MayWithdraw
  <2>2. FallenGone'
    BY <1>23 DEF Withdraws, Serving, SeatStep, MayJoin, Beam, Present, Gameplay,
       Holding, MayWithdraw
  <2>3. PilotLeads'
    BY <1>23 DEF Withdraws, Serving, SeatStep, MayJoin, Beam, Present, Gameplay,
       Holding, MayWithdraw
  <2> QED
    BY <2>1, <2>2, <2>3 DEF PilotInv
<1>24. ASSUME NEW s \in Seats, JoinWaits(s) PROVE PilotInv'
  <2>1. OnePilot'
    BY <1>24 DEF JoinWaits, Serving, SeatStep, MayJoin, Served, NextSeat, Outside, Gameplay
  <2>2. FallenGone'
    BY <1>24 DEF JoinWaits, Serving, SeatStep, MayJoin, Served, NextSeat, Outside, Gameplay
  <2>3. PilotLeads'
    BY <1>24 DEF JoinWaits, Serving, SeatStep, MayJoin, Served, NextSeat, Outside, Gameplay
  <2> QED
    BY <2>1, <2>2, <2>3 DEF PilotInv
<1>25. ASSUME NEW s \in Seats, Joins(s) PROVE PilotInv'
  <2>1. OnePilot'
    BY <1>25 DEF Joins, Serving, SeatStep, MayJoin, PlaceOther, Outside, Present,
       Automatic, Gameplay
  <2>2. FallenGone'
    BY <1>25 DEF Joins, Serving, SeatStep, MayJoin, PlaceOther, Outside, Present,
       Automatic, Gameplay
  <2>3. PilotLeads'
    BY <1>25 DEF Joins, Serving, SeatStep, MayJoin, PlaceOther, Outside, Present,
       Automatic, Gameplay
  <2> QED
    BY <2>1, <2>2, <2>3 DEF PilotInv
<1>26. CASE WeaponsTick
  <2>1. OnePilot'
    BY <1>26 DEF WeaponsTick
  <2>2. FallenGone'
    BY <1>26 DEF WeaponsTick
  <2>3. PilotLeads'
    BY <1>26 DEF WeaponsTick
  <2> QED
    BY <2>1, <2>2, <2>3 DEF PilotInv
<1> QED
  BY <1>1, <1>2, <1>3, <1>4, <1>5, <1>6, <1>7, <1>8, <1>9, <1>10, <1>11, <1>12, <1>13,
     <1>14, <1>15, <1>16, <1>17, <1>18, <1>19, <1>20, <1>21, <1>22, <1>23, <1>24, <1>25,
     <1>26 DEF FrameTick

LEMMA PilotController ==
    ASSUME "capsule" \notin World, TypeOK, LearnerNeverDies, ActorInv, PilotInv, Controller
    PROVE  PilotInv'
<1> USE DEF TypeOK, LearnerNeverDies, Dying, ActorInv, ActorPlays, Apart, ActorShown, ActorSeen,
            Seen, P1Stands, HostPart, InGame, Living, Playing, PilotInv, OnePilot, FallenGone,
            PilotLeads, FetchedAway, Rides, LiveScene
<1>1. CASE GuestStarts
  <2>1. OnePilot'
    BY <1>1 DEF GuestStarts
  <2>2. FallenGone'
    BY <1>1 DEF GuestStarts
  <2>3. PilotLeads'
    BY <1>1 DEF GuestStarts
  <2> QED
    BY <2>1, <2>2, <2>3 DEF PilotInv
<1>2. CASE BodyStays
  <2>1. OnePilot'
    BY <1>2 DEF BodyStays, InController
  <2>2. FallenGone'
    BY <1>2 DEF BodyStays, InController
  <2>3. PilotLeads'
    BY <1>2 DEF BodyStays, InController
  <2> QED
    BY <2>1, <2>2, <2>3 DEF PilotInv
<1>3. CASE TerrainHurts
  <2>1. OnePilot'
    BY <1>3 DEF TerrainHurts, InController, Exposed
  <2>2. FallenGone'
    BY <1>3 DEF TerrainHurts, InController, Exposed
  <2>3. PilotLeads'
    BY <1>3 DEF TerrainHurts, InController, Exposed
  <2> QED
    BY <2>1, <2>2, <2>3 DEF PilotInv
<1>4. CASE DeathStarts
  <2>1. OnePilot'
    BY <1>4 DEF DeathStarts, InController, DiesAlone
  <2>2. FallenGone'
    BY <1>4 DEF DeathStarts, InController, DiesAlone
  <2>3. PilotLeads'
    BY <1>4 DEF DeathStarts, InController, DiesAlone
  <2> QED
    BY <2>1, <2>2, <2>3 DEF PilotInv
<1>5. CASE DeathEnds
  <2>1. OnePilot'
    BY <1>5 DEF DeathEnds, InController
  <2>2. FallenGone'
    BY <1>5 DEF DeathEnds, InController
  <2>3. PilotLeads'
    BY <1>5 DEF DeathEnds, InController
  <2> QED
    BY <2>1, <2>2, <2>3 DEF PilotInv
<1>6. CASE SecondPass
  <2>1. OnePilot'
    BY <1>6 DEF SecondPass, RunsPartner
  <2>2. FallenGone'
    BY <1>6 DEF SecondPass, RunsPartner
  <2>3. PilotLeads'
    BY <1>6 DEF SecondPass, RunsPartner
  <2> QED
    BY <2>1, <2>2, <2>3 DEF PilotInv
<1>7. CASE ControllerReturns
  <2>1. OnePilot'
    BY <1>7 DEF ControllerReturns, RunsPartner
  <2>2. FallenGone'
    BY <1>7 DEF ControllerReturns, RunsPartner
  <2>3. PilotLeads'
    BY <1>7 DEF ControllerReturns, RunsPartner
  <2> QED
    BY <2>1, <2>2, <2>3 DEF PilotInv
<1> QED
  BY <1>1, <1>2, <1>3, <1>4, <1>5, <1>6, <1>7 DEF Controller

LEMMA PilotWorld ==
    ASSUME "capsule" \notin World, TypeOK, LearnerNeverDies, ActorInv, PilotInv, WorldMoves
    PROVE  PilotInv'
<1> USE DEF TypeOK, LearnerNeverDies, Dying, ActorInv, ActorPlays, Apart, ActorShown, ActorSeen,
            Seen, P1Stands, HostPart, InGame, Living, Playing, PilotInv, OnePilot, FallenGone,
            PilotLeads, FetchedAway, Rides, LiveScene
<1>1. CASE Contact
  <2>1. OnePilot'
    BY <1>1 DEF Contact, Running, Hit, Touched, Exposed
  <2>2. FallenGone'
    BY <1>1 DEF Contact, Running, Hit, Touched, Exposed
  <2>3. PilotLeads'
    BY <1>1 DEF Contact, Running, Hit, Touched, Exposed
  <2> QED
    BY <2>1, <2>2, <2>3 DEF PilotInv
<1>2. CASE Crushed
  <2>1. OnePilot'
    BY <1>2 DEF Crushed, Running, Hit, Touched, Exposed
  <2>2. FallenGone'
    BY <1>2 DEF Crushed, Running, Hit, Touched, Exposed
  <2>3. PilotLeads'
    BY <1>2 DEF Crushed, Running, Hit, Touched, Exposed
  <2> QED
    BY <2>1, <2>2, <2>3 DEF PilotInv
<1>3. CASE Drained
  <2>1. OnePilot'
    BY <1>3 DEF Drained, Running, Exposed
  <2>2. FallenGone'
    BY <1>3 DEF Drained, Running, Exposed
  <2>3. PilotLeads'
    BY <1>3 DEF Drained, Running, Exposed
  <2> QED
    BY <2>1, <2>2, <2>3 DEF PilotInv
<1>4. CASE ArmorLeft
  <2>1. OnePilot'
    BY <1>4 DEF ArmorLeft, Running
  <2>2. FallenGone'
    BY <1>4 DEF ArmorLeft, Running
  <2>3. PilotLeads'
    BY <1>4 DEF ArmorLeft, Running
  <2> QED
    BY <2>1, <2>2, <2>3 DEF PilotInv
<1>5. CASE ScriptStarts
  <2>1. OnePilot'
    BY <1>5 DEF ScriptStarts, Running
  <2>2. FallenGone'
    BY <1>5 DEF ScriptStarts, Running
  <2>3. PilotLeads'
    BY <1>5 DEF ScriptStarts, Running
  <2> QED
    BY <2>1, <2>2, <2>3 DEF PilotInv
<1>6. CASE HoldStarts
  <2>1. OnePilot'
    BY <1>6 DEF HoldStarts, Running
  <2>2. FallenGone'
    BY <1>6 DEF HoldStarts, Running
  <2>3. PilotLeads'
    BY <1>6 DEF HoldStarts, Running
  <2> QED
    BY <2>1, <2>2, <2>3 DEF PilotInv
<1>7. CASE ScriptEnds
  <2>1. OnePilot'
    BY <1>7 DEF ScriptEnds
  <2>2. FallenGone'
    BY <1>7 DEF ScriptEnds
  <2>3. PilotLeads'
    BY <1>7 DEF ScriptEnds
  <2> QED
    BY <2>1, <2>2, <2>3 DEF PilotInv
<1>8. CASE Farewell
  <2>1. OnePilot'
    BY <1>8 DEF Farewell, Running, BeginScene, Beam
  <2>2. FallenGone'
    BY <1>8 DEF Farewell, Running, BeginScene, Beam
  <2>3. PilotLeads'
    BY <1>8 DEF Farewell, Running, BeginScene, Beam
  <2> QED
    BY <2>1, <2>2, <2>3 DEF PilotInv
<1>9. CASE BossChanges
  <2>1. OnePilot'
    BY <1>9 DEF BossChanges, Running
  <2>2. FallenGone'
    BY <1>9 DEF BossChanges, Running
  <2>3. PilotLeads'
    BY <1>9 DEF BossChanges, Running
  <2> QED
    BY <2>1, <2>2, <2>3 DEF PilotInv
<1>10. CASE OneUp
  <2>1. OnePilot'
    BY <1>10 DEF OneUp, Running
  <2>2. FallenGone'
    BY <1>10 DEF OneUp, Running
  <2>3. PilotLeads'
    BY <1>10 DEF OneUp, Running
  <2> QED
    BY <2>1, <2>2, <2>3 DEF PilotInv
<1>11. CASE RefillStarts
  <2>1. OnePilot'
    BY <1>11 DEF RefillStarts, Running
  <2>2. FallenGone'
    BY <1>11 DEF RefillStarts, Running
  <2>3. PilotLeads'
    BY <1>11 DEF RefillStarts, Running
  <2> QED
    BY <2>1, <2>2, <2>3 DEF PilotInv
<1>12. CASE RefillEnds
  <2>1. OnePilot'
    BY <1>12 DEF RefillEnds
  <2>2. FallenGone'
    BY <1>12 DEF RefillEnds
  <2>3. PilotLeads'
    BY <1>12 DEF RefillEnds
  <2> QED
    BY <2>1, <2>2, <2>3 DEF PilotInv
<1>13. CASE MenuCloses
  <2>1. OnePilot'
    BY <1>13 DEF MenuCloses
  <2>2. FallenGone'
    BY <1>13 DEF MenuCloses
  <2>3. PilotLeads'
    BY <1>13 DEF MenuCloses
  <2> QED
    BY <2>1, <2>2, <2>3 DEF PilotInv
<1>14. CASE StageClears
  <2>1. OnePilot'
    BY <1>14 DEF StageClears, Running
  <2>2. FallenGone'
    BY <1>14 DEF StageClears, Running
  <2>3. PilotLeads'
    BY <1>14 DEF StageClears, Running
  <2> QED
    BY <2>1, <2>2, <2>3 DEF PilotInv
<1>15. CASE StageLeaves
  <2>1. OnePilot'
    BY <1>15 DEF StageLeaves
  <2>2. FallenGone'
    BY <1>15 DEF StageLeaves
  <2>3. PilotLeads'
    BY <1>15 DEF StageLeaves
  <2> QED
    BY <2>1, <2>2, <2>3 DEF PilotInv
<1>16. CASE TeamRestarts
  <2>1. OnePilot'
    BY <1>16 DEF TeamRestarts
  <2>2. FallenGone'
    BY <1>16 DEF TeamRestarts
  <2>3. PilotLeads'
    BY <1>16 DEF TeamRestarts
  <2> QED
    BY <2>1, <2>2, <2>3 DEF PilotInv
<1>17. CASE StageReady
  <2>1. OnePilot'
    BY <1>17 DEF StageReady
  <2>2. FallenGone'
    BY <1>17 DEF StageReady
  <2>3. PilotLeads'
    BY <1>17 DEF StageReady
  <2> QED
    BY <2>1, <2>2, <2>3 DEF PilotInv
<1>18. ASSUME NEW s \in Seats, Falls(s) PROVE PilotInv'
  <2>1. OnePilot'
    BY <1>18 DEF Falls, Running, Exposed
  <2>2. FallenGone'
    BY <1>18 DEF Falls, Running, Exposed
  <2>3. PilotLeads'
    BY <1>18 DEF Falls, Running, Exposed
  <2> QED
    BY <2>1, <2>2, <2>3 DEF PilotInv
<1>19. ASSUME NEW s \in Seats, Boards(s) PROVE PilotInv'
  <2>1. OnePilot'
    BY <1>19 DEF Boards, Running
  <2>2. FallenGone'
    BY <1>19 DEF Boards, Running
  <2>3. PilotLeads'
    BY <1>19 DEF Boards, Running
  <2> QED
    BY <2>1, <2>2, <2>3 DEF PilotInv
<1>20. ASSUME NEW s \in Seats, NEW both, Enters(s, both) PROVE PilotInv'
  <2>1. OnePilot'
    BY <1>20 DEF Enters, Running, BeginScene, Beam, Exposed
  <2>2. FallenGone'
    BY <1>20 DEF Enters, Running, BeginScene, Beam, Exposed
  <2>3. PilotLeads'
    BY <1>20 DEF Enters, Running, BeginScene, Beam, Exposed
  <2> QED
    BY <2>1, <2>2, <2>3 DEF PilotInv
<1>21. ASSUME NEW s \in Seats, MenuOpens(s) PROVE PilotInv'
  <2>1. OnePilot'
    BY <1>21 DEF MenuOpens, Running
  <2>2. FallenGone'
    BY <1>21 DEF MenuOpens, Running
  <2>3. PilotLeads'
    BY <1>21 DEF MenuOpens, Running
  <2> QED
    BY <2>1, <2>2, <2>3 DEF PilotInv
<1> QED
  BY <1>1, <1>2, <1>3, <1>4, <1>5, <1>6, <1>7, <1>8, <1>9, <1>10, <1>11, <1>12, <1>13,
     <1>14, <1>15, <1>16, <1>17, <1>18, <1>19, <1>20, <1>21 DEF WorldMoves, EntersDoor, RidesLift

LEMMA PilotKept ==
    ASSUME "capsule" \notin World
    PROVE  TypeOK /\ LearnerNeverDies /\ ActorInv /\ PilotInv /\ [Next]_vars => PilotInv'
<1> SUFFICES ASSUME TypeOK, LearnerNeverDies, ActorInv, PilotInv, [Next]_vars PROVE PilotInv'
  OBVIOUS
<1> USE DEF PilotInv, OnePilot, FallenGone, PilotLeads, FetchedAway, Rides, Playing, HostPart,
            Living, LiveScene
<1>1. CASE Poll
  BY <1>1 DEF TypeOK, Poll
<1>2. CASE FrameTick
  BY <1>2, PilotFrame
<1>3. CASE Controller
  BY <1>3, PilotController
<1>4. CASE WorldMoves
  BY <1>4, PilotWorld
<1>5. CASE EndFrame
  BY <1>5 DEF TypeOK, EndFrame
<1>6. CASE UNCHANGED vars
  BY <1>6 DEF vars
<1> QED
  BY <1>1, <1>2, <1>3, <1>4, <1>5, <1>6 DEF Next

\* Whoever took the world, the guest moves an occupied ride armor with its
\* pilot's body and for its pilot.
THEOREM PilotAlwaysDrives ==
    ASSUME "capsule" \notin World
    PROVE  Spec => []PilotDrives
<1>1. Init => PilotInv
  BY DEF Init, PilotInv, OnePilot, FallenGone, PilotLeads, HostPart
<1>2. TypeOK /\ LearnerNeverDies /\ ActorInv /\ PilotInv /\ [Next]_vars => PilotInv'
  BY PilotKept
<1>3. ActorInv /\ PilotInv => PilotDrives
  BY DEF ActorInv, ActorShown, PilotInv, PilotLeads, FetchedAway, Rides, Playing, InGame,
     PilotDrives
<1> QED
  BY <1>1, <1>2, <1>3, ActorAlways, TypeCorrect, LearnerSafe, PTL DEF Spec
================================================================================

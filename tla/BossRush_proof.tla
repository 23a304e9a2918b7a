----------------------------- MODULE BossRush_proof -----------------------------
(***************************************************************************)
(* The boss rush encounter keeps its promises for every set of bosses,      *)
(* every shape of the object pools, every limit and any number of players.  *)
(*                                                                         *)
(* Each theorem rests on one inductive invariant, built in layers: types    *)
(* and the queue; the seats; the run counters; then ownership and scene     *)
(* globals, through calls that frames cut and the host writes behind.       *)
(***************************************************************************)
EXTENDS BossRush, BossDraw_proof
--------------------------------------------------------------------------------
\* First(S), the lowest free slot of a pool, is a slot of the pool.
LEMMA FirstIsMember ==
    ASSUME NEW S \in SUBSET Slots, S # {}
    PROVE  First(S) \in S
<1>1. S \in SUBSET Nat
  BY SlotsAssumption
<1>2. \E k \in S : \A j \in S : k <= j
  BY <1>1, SmallestOfNaturals
<1>3. QED
  BY <1>2 DEF First

\* The steps of the host's program counter that touch nothing else.
PcStep ==
    \/ FrameIdle \/ FrameSeats \/ NothingToClean \/ NothingToSpawn
    \/ RunGuest \/ FreezeGuest \/ SchedulerReturns \/ AfterFrameIdle

LEMMA PcStepFrame ==
    ASSUME PcStep, seat \in Seats
    PROVE  /\ UNCHANGED <<rushVars, seatVars, owner, callVars, guestVars, spawner, owed>>
           /\ pc' \in {"frame", "clean", "spawn", "run", "guest", "after"}
           /\ seat' \in Seats
  BY DEF PcStep, FrameIdle, FrameSeats, NothingToClean, NothingToSpawn, RunGuest,
         FreezeGuest, SchedulerReturns, AfterFrameIdle, NextSeat, Seats
--------------------------------------------------------------------------------
\* Types.  What a draw leaves in the queue depends on the queue, so the two are
\* one induction; a pending call has an object.
TypeInv ==
    /\ TypeOK
    /\ ValidQueue(queue)
    /\ actor # Nobody => actorObject \in Slots

LEMMA ResetTypes ==
    ASSUME Reset
    PROVE  /\ loaded' = "NOT_LOADED" /\ stageStarted' \in BOOLEAN
           /\ bosses' \in [Seats -> Boss]
           /\ queue' \in Seq(Bosses) /\ ValidQueue(queue')
           /\ generation' \in 0..CounterMax /\ defeated' \in 0..CounterMax
           /\ owner' \in [Slots -> Owners] /\ occupied' \subseteq Slots
           /\ actor' \in Owners /\ actorObject' \in Slots \cup {NoSlot}
           /\ saved' \in Owners
           /\ owed' \in [Seats -> Int]
           /\ actor' = Nobody /\ touched' = {} /\ crossed' = {}
<1>1. EmptyBoss \in Boss
  BY CountersAssumption DEF EmptyBoss, Boss, Phases, Owners
<1>2. queue' = <<>> /\ bosses' = [s \in Seats |-> EmptyBoss]
  BY DEF Reset
<1>3. bosses' \in [Seats -> Boss]
  BY <1>1, <1>2
<1>4. queue' \in Seq(Bosses) /\ ValidQueue(queue')
  BY <1>2, EmptySeq DEF ValidQueue
<1>5. generation' \in 0..CounterMax /\ defeated' \in 0..CounterMax
  BY CountersAssumption DEF Reset
<1>6. owner' \in [Slots -> Owners] /\ owed' \in [Seats -> Int]
  BY DEF Reset, Owners
<1>7. QED
  BY <1>3, <1>4, <1>5, <1>6 DEF Reset, Owners

\* Assigning one field of one seat keeps the seats' type and what they fight.
LEMMA TicksUpdate ==
    ASSUME NEW b \in Boss, NEW n \in 0..CleanupTicks
    PROVE  [b EXCEPT !.ticks = n] \in Boss
  BY DEF Boss

LEMMA GlobalsUpdate ==
    ASSUME NEW b \in Boss, NEW g \in Owners
    PROVE  [b EXCEPT !.globals = g] \in Boss
  BY DEF Boss

LEMMA DyingKeeps ==
    ASSUME NEW b \in Boss
    PROVE  /\ [b EXCEPT !.phase = "DYING", !.ticks = 0].id = b.id
           /\ [b EXCEPT !.phase = "DYING", !.ticks = 0].object = b.object
           /\ [b EXCEPT !.phase = "DYING", !.ticks = 0].phase = "DYING"
  BY DEF Boss

LEMMA SeatUpdate ==
    ASSUME NEW f \in [Seats -> Boss], NEW s \in Seats, NEW b \in Boss
    PROVE  [f EXCEPT ![s] = b] \in [Seats -> Boss]
  OBVIOUS

\* The two writes of AfterFrame and the death entry to a seat keep its type.
LEMMA BossUpdates ==
    ASSUME NEW b \in Boss, NEW phase \in Phases
    PROVE  /\ [b EXCEPT !.phase = phase] \in Boss
           /\ [b EXCEPT !.phase = "DYING", !.ticks = 0] \in Boss
<1>1. 0 \in 0..CleanupTicks
  BY CountersAssumption
<1>2. QED
  BY <1>1 DEF Boss, Phases

\* The defeat counter never passes its limit.
LEMMA SaturateBounded ==
    ASSUME NEW n \in 0..CounterMax
    PROVE  Saturate(n) \in 0..CounterMax
  BY CountersAssumption DEF Saturate

LEMMA TypeStep == TypeInv /\ [Next]_vars => TypeInv'
<1> SUFFICES ASSUME TypeInv, [Next]_vars
             PROVE  TypeInv'
  OBVIOUS
<1> USE DEF TypeInv, TypeOK
<1>1. CASE PcStep
  BY <1>1, PcStepFrame DEF rushVars, seatVars, callVars, pendingVars, guestVars
<1>2. CASE Load
  BY <1>2, ResetTypes DEF Load, Modes, guestVars
<1>3. CASE MainMenu
  BY <1>3 DEF MainMenu, Modes, guestVars, seatVars, callVars, pendingVars
<1>4. CASE Prepare
  BY <1>4 DEF Prepare, Modes, seatVars, callVars, pendingVars
<1>5. CASE CleanupTick
  <2>1. bosses' \in [Seats -> Boss]
    <3>1. bosses[seat].ticks + 1 \in 0..CleanupTicks
      BY <1>5, CountersAssumption DEF CleanupTick, Boss
    <3>2. bosses' = [bosses EXCEPT ![seat] = [bosses[seat] EXCEPT !.ticks = bosses[seat].ticks + 1]]
      BY <1>5 DEF CleanupTick
    <3>3. bosses[seat] \in Boss
      OBVIOUS
    <3>4. [bosses[seat] EXCEPT !.ticks = bosses[seat].ticks + 1] \in Boss
      BY <3>1, <3>3, TicksUpdate
    <3>5. QED
      BY <3>2, <3>4, SeatUpdate
  <2>2. QED
    BY <1>5, <2>1 DEF CleanupTick, rushVars, callVars, pendingVars, guestVars
<1>6. CASE CleanupBoss
  <2>1. First(FreeItems) \in Slots
    <3>1. FreeItems \in SUBSET Slots /\ FreeItems # {}
      BY <1>6 DEF CleanupBoss, FreeItems, Slots
    <3>2. QED
      BY <3>1, FirstIsMember
  <2>2. Erased \in [Slots -> Natives \cup {"free", "other"}]
    BY DEF Erased
  <2>3. Disowned \in [Slots -> Owners]
    BY DEF Disowned, Owners
  <2>4. EmptyBoss \in Boss
    BY CountersAssumption DEF EmptyBoss, Boss, Phases, Owners
  <2>5. bosses' \in [Seats -> Boss] /\ owner' \in [Slots -> Owners]
    BY <1>6, <2>1, <2>3, <2>4 DEF CleanupBoss, Owners
  <2>6. ram' \in [Slots -> Natives \cup {"free", "other"}]
    BY <1>6, <2>1, <2>2 DEF CleanupBoss
  <2>7. spawner' \in [Slots -> Owners] /\ owed' \in [Seats -> Int]
    BY <1>6 DEF CleanupBoss, Owners
  <2>8. touched' \subseteq Slots /\ crossed' \subseteq Seats
    BY <1>6, <2>1 DEF CleanupBoss, HostTouches
  <2>9. QED
    BY <1>6, <2>5, <2>6, <2>7, <2>8 DEF CleanupBoss, rushVars, callVars, pendingVars
<1>7. CASE CleanupRetry
  <2>1. bosses' \in [Seats -> Boss]
    <3>1. CleanupTicks \in 0..CleanupTicks
      BY CountersAssumption
    <3>2. bosses' = [bosses EXCEPT ![seat] = [bosses[seat] EXCEPT !.ticks = CleanupTicks]]
      BY <1>7 DEF CleanupRetry
    <3>3. bosses[seat] \in Boss
      OBVIOUS
    <3>4. [bosses[seat] EXCEPT !.ticks = CleanupTicks] \in Boss
      BY <3>1, <3>3, TicksUpdate
    <3>5. QED
      BY <3>2, <3>4, SeatUpdate
  <2>2. ram' \in [Slots -> Natives \cup {"free", "other"}]
    BY <1>7 DEF CleanupRetry, Erased
  <2>3. owner' \in [Slots -> Owners] /\ spawner' \in [Slots -> Owners]
    BY <1>7 DEF CleanupRetry, Disowned, Owners
  <2>4. touched' \subseteq Slots
    BY <1>7 DEF CleanupRetry, HostTouches
  <2>5. QED
    BY <1>7, <2>1, <2>2, <2>3, <2>4
    DEF CleanupRetry, NextSeat, Seats, rushVars, callVars, pendingVars
<1>8. CASE DrawWasted
  <2>1. queue' \in Seq(Bosses) /\ ValidQueue(queue')
    BY <1>8, NextBossProperties DEF DrawWasted
  <2>2. QED
    BY <1>8, <2>1 DEF DrawWasted, NextSeat, Seats, rushVars, callVars, pendingVars, guestVars
<1>9. CASE SpawnBoss
  <2> DEFINE object == First(Free(EnemySlots))
  <2>1. object \in EnemySlots /\ object \in Slots
    <3>1. Free(EnemySlots) \in SUBSET Slots /\ Free(EnemySlots) # {}
      BY <1>9 DEF SpawnBoss, Free, Slots
    <3>2. object \in Free(EnemySlots)
      BY <3>1, FirstIsMember
    <3>3. QED
      BY <3>1, <3>2 DEF Free
  <2>2. PICK n \in NextBoss(queue, Present) :
            /\ n.id # NoBoss
            /\ queue' = n.queue
            /\ bosses' = [bosses EXCEPT ![seat] =
                            [phase |-> "ENTERING", id |-> n.id, object |-> object,
                             ticks |-> 0, globals |-> globals]]
    BY <1>9 DEF SpawnBoss
  <2>3. n.id \in Bosses /\ queue' \in Seq(Bosses) /\ ValidQueue(queue')
    BY <2>2, NextBossProperties
  <2> HIDE DEF object
  <2>4. bosses' \in [Seats -> Boss]
    BY <2>1, <2>2, <2>3, CountersAssumption DEF Boss, Phases
  <2>5. owner' \in [Slots -> Owners] /\ spawner' \in [Slots -> Owners]
    BY <1>9, <2>1 DEF SpawnBoss, Owners, object
  <2>6. ram' \in [Slots -> Natives \cup {"free", "other"}]
    BY <1>9, <2>1 DEF SpawnBoss, Natives, object
  <2>7. generation' \in 0..CounterMax
    BY <1>9, CountersAssumption DEF SpawnBoss, Wrap
  <2>8. touched' \subseteq Slots /\ crossed' \subseteq Seats /\ owed' \in [Seats -> Int]
    BY <1>9, <2>1 DEF SpawnBoss, HostTouches, object
  <2>9. QED
    BY <1>9, <2>3, <2>4, <2>5, <2>6, <2>7, <2>8
    DEF SpawnBoss, NextSeat, Seats, rushVars, callVars, pendingVars
<1>10. CASE StageStart
  BY <1>10 DEF StageStart, seatVars, callVars, pendingVars, Owners
<1>11. CASE TitleReached
  BY <1>11, ResetTypes DEF TitleReached, Modes, Owners
<1>12. CASE LogoDone
  BY <1>12 DEF LogoDone, seatVars, callVars, pendingVars
<1>13. CASE ArenaTrigger
  BY <1>13 DEF ArenaTrigger, seatVars, callVars, pendingVars, guestVars
<1>14. CASE MusicUploaded
  BY <1>14 DEF MusicUploaded, Modes, seatVars, callVars, pendingVars, guestVars
<1>15. ASSUME NEW d \in Slots, CallEnter(d)
       PROVE  TypeInv'
  <2>1. owner[d] \in Seats
    BY <1>15 DEF CallEnter, Owners
  <2>2. bosses[owner[d]].globals \in Owners
    BY <2>1 DEF Boss
  <2>3. QED
    BY <1>15, <2>1, <2>2 DEF CallEnter, rushVars, seatVars, callVars, pendingVars, Owners
<1>16. CASE CallReturn
  <2>1. actor \in Seats
    BY <1>16 DEF CallReturn, Owners
  <2>2. bosses' \in [Seats -> Boss]
    <3>1. bosses' = [bosses EXCEPT ![actor] = [bosses[actor] EXCEPT !.globals = globals]]
      BY <1>16 DEF CallReturn
    <3>2. bosses[actor] \in Boss
      BY <2>1
    <3>3. [bosses[actor] EXCEPT !.globals = globals] \in Boss
      BY <3>2, GlobalsUpdate
    <3>4. QED
      BY <2>1, <3>1, <3>3, SeatUpdate
  <2>3. QED
    BY <1>16, <2>2 DEF CallReturn, rushVars, Owners
<1>17. ASSUME NEW d \in Slots, CallSpawns(d)
       PROVE  TypeInv'
  BY <1>17 DEF CallSpawns, rushVars, seatVars, callVars, pendingVars
<1>18. CASE CallEndsObject
  <2>1. actorObject \in Slots
    BY <1>18 DEF CallEndsObject, InCall, InPlay
  <2>2. QED
    BY <1>18, <2>1 DEF CallEndsObject, rushVars, seatVars, callVars, pendingVars, Owners
<1>19. CASE CallWritesGlobals
  BY <1>19 DEF CallWritesGlobals, rushVars, seatVars, callVars, pendingVars
<1>20. CASE BodyAdvances
  <2>1. ram' \in [Slots -> Natives \cup {"free", "other"}]
    BY <1>20 DEF BodyAdvances, Natives
  <2>2. QED
    BY <1>20, <2>1 DEF BodyAdvances, rushVars, seatVars, callVars, pendingVars
<1>21. CASE DeathEntry
  <2> DEFINE s == owner[actorObject]
  <2>1. s \in Seats
    BY <1>21 DEF DeathEntry, InCall, InPlay, Owners
  <2>2. bosses' \in [Seats -> Boss]
    <3>1. bosses' = [bosses EXCEPT ![s] =
                        [bosses[s] EXCEPT !.phase = "DYING", !.ticks = 0]]
      BY <1>21, <2>1 DEF DeathEntry
    <3>2. [bosses[s] EXCEPT !.phase = "DYING", !.ticks = 0] \in Boss
      BY <2>1, BossUpdates DEF Phases
    <3>3. QED
      BY <2>1, <3>1, <3>2
  <2>3. defeated' \in 0..CounterMax /\ owed' \in [Seats -> Int]
    BY <1>21, <2>1, SaturateBounded DEF DeathEntry
  <2>4. QED
    BY <1>21, <2>2, <2>3 DEF DeathEntry, rushVars, callVars, pendingVars, guestVars
<1>22. ASSUME NEW p \in Players, HitPlayer(p) \/ DeathAnimationEnds(p)
       PROVE  TypeInv'
  <2>1. players' \in [Players -> {"alive", "dying", "dead"}]
    BY <1>22 DEF HitPlayer, DeathAnimationEnds
  <2>2. UNCHANGED <<rushVars, seatVars, owner, callVars, ram, globals, scene, pc, seat,
                    spawner, owed>>
    BY <1>22 DEF HitPlayer, DeathAnimationEnds
  <2>3. QED
    BY <2>1, <2>2 DEF rushVars, seatVars, callVars, pendingVars
<1>23. ASSUME NEW d \in Slots, WorldSpawns(d) \/ WorldEnds(d) \/ PlayerShotClears(d)
       PROVE  TypeInv'
  <2>1. /\ ram' \in [Slots -> Natives \cup {"free", "other"}]
        /\ spawner' \in [Slots -> Owners]
    BY <1>23 DEF WorldSpawns, WorldEnds, PlayerShotClears, Owners
  <2>2. UNCHANGED <<rushVars, seatVars, owner, callVars, globals, players, scene, pc,
                    seat, owed>>
    BY <1>23 DEF WorldSpawns, WorldEnds, PlayerShotClears
  <2>3. QED
    BY <2>1, <2>2 DEF rushVars, seatVars, callVars, pendingVars
<1>24. CASE AfterFrame
  <2>1. PICK native \in [Seats -> Natives] :
          /\ bosses' = [s \in Seats |->
               IF Falls(s, native)
               THEN [bosses[s] EXCEPT !.phase = "DYING", !.ticks = 0]
               ELSE [bosses[s] EXCEPT !.phase = Observed(s, native[s])]]
          /\ defeated' = Counted(native)
          /\ owed' = [s \in Seats |->
               IF Falls(s, native) THEN owed[s] + 1 ELSE owed[s]]
    BY <1>24 DEF AfterFrame
  <2>2. \A s \in Seats : Observed(s, native[s]) \in Phases
    BY DEF Observed, Phase, Boss, Phases
  <2>3. bosses' \in [Seats -> Boss]
    BY <2>1, <2>2, BossUpdates
  <2>4. defeated' \in 0..CounterMax
    BY <2>1, SaturateBounded DEF Counted
  <2>5. owed' \in [Seats -> Int]
    <3>1. \A s \in Seats : owed[s] \in Int /\ owed[s] + 1 \in Int
      OBVIOUS
    <3>2. QED
      BY <2>1, <3>1
  <2>6. QED
    BY <1>24, <2>3, <2>4, <2>5 DEF AfterFrame, Modes, Owners
<1>25. CASE HardwareReset
  BY <1>25, ResetTypes DEF HardwareReset, Modes, Owners
<1>26. CASE UNCHANGED vars
  BY <1>26 DEF vars, rushVars, seatVars, callVars, pendingVars, guestVars
<1>27. QED
  BY <1>1, <1>2, <1>3, <1>4, <1>5, <1>6, <1>7, <1>8, <1>9, <1>10, <1>11, <1>12, <1>13,
     <1>14, <1>15, <1>16, <1>17, <1>18, <1>19, <1>20, <1>21, <1>22, <1>23, <1>24, <1>25,
     <1>26
  DEF Next, FrameStep, GuestStep, PcStep

LEMMA TypeInit == Init => TypeInv
<1> SUFFICES ASSUME Init
             PROVE  TypeInv
  OBVIOUS
<1>1. EmptyBoss \in Boss
  BY CountersAssumption DEF EmptyBoss, Boss, Phases, Owners
<1>2. bosses \in [Seats -> Boss]
  BY <1>1 DEF Init
<1>3. queue \in Seq(Bosses) /\ ValidQueue(queue)
  BY EmptySeq DEF Init, ValidQueue
<1>4. generation \in 0..CounterMax /\ defeated \in 0..CounterMax
  BY CountersAssumption DEF Init
<1>5. /\ owner \in [Slots -> Owners] /\ spawner \in [Slots -> Owners]
      /\ ram \in [Slots -> Natives \cup {"free", "other"}]
      /\ players \in [Players -> {"alive", "dying", "dead"}]
      /\ owed \in [Seats -> Int]
  BY DEF Init, Owners
<1>6. QED
  BY <1>2, <1>3, <1>4, <1>5 DEF Init, TypeInv, TypeOK, Modes, Owners, Seats

LEMMA TypeInvariant == Spec => []TypeInv
  BY TypeInit, TypeStep, PTL DEF Spec

\* The run's state and guest RAM keep their types at every step.
THEOREM TypeCorrect == Spec => []TypeOK
<1>1. TypeInv => TypeOK
  BY DEF TypeInv
<1>2. QED
  BY <1>1, TypeInvariant, PTL
--------------------------------------------------------------------------------
\* The seats.  Which steps touch a seat, the owner of an object, or the pending
\* call.
LEMMA SeatSteps ==
    ASSUME [Next]_vars
    PROVE  \/ UNCHANGED <<bosses, queue, generation, defeated, owner, actor, crossed, owed>>
           \/ DrawWasted /\ UNCHANGED <<bosses, generation, defeated, owner, actor, crossed,
                                        owed>>
           \/ Reset /\ mode' \notin {"PLAYING", "FINISHED"}
           \/ CleanupTick \/ CleanupBoss \/ CleanupRetry \/ SpawnBoss
           \/ \E d \in Slots : CallEnter(d)
           \/ CallReturn \/ DeathEntry \/ AfterFrame
<1> DEFINE Same == UNCHANGED <<bosses, queue, generation, defeated, owner, actor, crossed,
                               owed>>
<1>1. PcStep \/ MainMenu \/ Prepare => Same
  BY DEF PcStep, FrameIdle, FrameSeats, NothingToClean, NothingToSpawn, RunGuest,
         FreezeGuest, SchedulerReturns, AfterFrameIdle, MainMenu, Prepare, seatVars,
         callVars, pendingVars
<1>2. Load \/ TitleReached \/ HardwareReset =>
        Reset /\ mode' \notin {"PLAYING", "FINISHED"}
  BY DEF Load, TitleReached, HardwareReset
<1>3. StageStart \/ LogoDone \/ ArenaTrigger \/ MusicUploaded => Same
  BY DEF StageStart, LogoDone, ArenaTrigger, MusicUploaded, seatVars, callVars, pendingVars
<1>4. CallEndsObject \/ CallWritesGlobals \/ BodyAdvances => Same
  BY DEF CallEndsObject, CallWritesGlobals, BodyAdvances, seatVars, callVars, pendingVars
<1>5. \A d : CallSpawns(d) \/ WorldSpawns(d) \/ WorldEnds(d) \/ PlayerShotClears(d) => Same
  BY DEF CallSpawns, WorldSpawns, WorldEnds, PlayerShotClears, seatVars, callVars, pendingVars
<1>6. \A p : HitPlayer(p) \/ DeathAnimationEnds(p) => Same
  BY DEF HitPlayer, DeathAnimationEnds, seatVars, callVars, pendingVars
<1>7. DrawWasted => UNCHANGED <<bosses, generation, defeated, owner, actor, crossed, owed>>
  BY DEF DrawWasted, callVars, pendingVars
<1>8. UNCHANGED vars => Same
  BY DEF vars, seatVars, callVars, pendingVars
<1>9. QED
  BY <1>1, <1>2, <1>3, <1>4, <1>5, <1>6, <1>7, <1>8 DEF Next, FrameStep, GuestStep, PcStep

\* The two seats differ, and only a seat with a boss has objects or a call.
SeatInv ==
    /\ \A s \in Seats : Phase(s) = "EMPTY" <=> bosses[s].id = NoBoss
    /\ \A s \in Seats : Phase(s) # "EMPTY" => bosses[s].object \in EnemySlots
    /\ \A s, t \in Seats : s # t /\ Phase(s) # "EMPTY" /\ Phase(t) # "EMPTY" =>
            bosses[s].id # bosses[t].id /\ bosses[s].object # bosses[t].object
    /\ ValidCall(actor, bosses)
    /\ OwnedHasBoss

\* What a step may do to the seats when it only moves phases, timers or globals.
LEMMA SameSeats ==
    ASSUME SeatInv, bosses' \in [Seats -> Boss],
           \A s \in Seats : bosses'[s].id = bosses[s].id,
           \A s \in Seats : bosses'[s].object = bosses[s].object,
           \A s \in Seats : bosses'[s].phase = "EMPTY" <=> bosses[s].phase = "EMPTY",
           \A d \in Slots : owner'[d] # Nobody => bosses[owner'[d]].phase # "EMPTY",
           owner' \in [Slots -> Owners],
           actor' # Nobody => actor' \in Seats /\ bosses[actor'].phase # "EMPTY"
    PROVE  SeatInv'
<1>1. \A s \in Seats : bosses'[s].phase = "EMPTY" <=> bosses'[s].id = NoBoss
  BY DEF SeatInv, Phase
<1>2. \A s \in Seats : bosses'[s].phase # "EMPTY" => bosses'[s].object \in EnemySlots
  BY DEF SeatInv, Phase
<1>3. \A s, t \in Seats :
        s # t /\ bosses'[s].phase # "EMPTY" /\ bosses'[t].phase # "EMPTY" =>
            bosses'[s].id # bosses'[t].id /\ bosses'[s].object # bosses'[t].object
  BY DEF SeatInv, Phase
<1>4. actor' # Nobody => bosses'[actor'].phase # "EMPTY"
  BY DEF Phase
<1>5. \A d \in Slots : owner'[d] # Nobody => bosses'[owner'[d]].phase # "EMPTY"
  BY DEF Phase, Owners
<1>6. QED
  BY <1>1, <1>2, <1>3, <1>4, <1>5 DEF SeatInv, Phase, ValidCall, OwnedHasBoss

\* What AfterFrame does to a seat, whichever branch it takes.
LEMMA AfterFrameSeats ==
    ASSUME TypeOK, AfterFrame
    PROVE  \E native \in [Seats -> Natives] :
            /\ \A s \in Seats : native[s] \in Reads(s)
            /\ \A s \in Seats : bosses'[s].id = bosses[s].id
            /\ \A s \in Seats : bosses'[s].object = bosses[s].object
            /\ \A s \in Seats : bosses'[s].globals = bosses[s].globals
            /\ \A s \in Seats : bosses'[s].phase = Observed(s, native[s])
            /\ defeated' = Counted(native)
            /\ owed' = [s \in Seats |->
                            IF Falls(s, native) THEN owed[s] + 1 ELSE owed[s]]
<1>1. PICK native \in [Seats -> Natives] :
        /\ \A s \in Seats : native[s] \in Reads(s)
        /\ bosses' = [s \in Seats |->
             IF Falls(s, native)
             THEN [bosses[s] EXCEPT !.phase = "DYING", !.ticks = 0]
             ELSE [bosses[s] EXCEPT !.phase = Observed(s, native[s])]]
        /\ defeated' = Counted(native)
        /\ owed' = [s \in Seats |-> IF Falls(s, native) THEN owed[s] + 1 ELSE owed[s]]
  BY DEF AfterFrame
<1>2. ASSUME NEW s \in Seats
      PROVE  /\ bosses'[s].id = bosses[s].id
             /\ bosses'[s].object = bosses[s].object
             /\ bosses'[s].globals = bosses[s].globals
             /\ bosses'[s].phase = Observed(s, native[s])
  <2>1. bosses[s] \in Boss
    BY DEF TypeOK
  <2>2. CASE Falls(s, native)
    <3>1. bosses'[s] = [bosses[s] EXCEPT !.phase = "DYING", !.ticks = 0]
      BY <1>1, <2>2
    <3>2. Observed(s, native[s]) = "DYING"
      BY <2>2 DEF Falls
    <3>3. QED
      BY <2>1, <3>1, <3>2 DEF Boss
  <2>3. CASE ~Falls(s, native)
    <3>1. bosses'[s] = [bosses[s] EXCEPT !.phase = Observed(s, native[s])]
      BY <1>1, <2>3
    <3>2. QED
      BY <2>1, <3>1 DEF Boss
  <2>4. QED
    BY <2>2, <2>3
<1>3. QED
  BY <1>1, <1>2

LEMMA SeatStep == TypeInv /\ TypeInv' /\ SeatInv /\ [Next]_vars => SeatInv'
<1> SUFFICES ASSUME TypeInv, TypeInv', SeatInv, [Next]_vars
             PROVE  SeatInv'
  OBVIOUS
<1>1. CASE UNCHANGED <<bosses, owner, actor>>
  BY <1>1 DEF SeatInv, Phase, ValidCall, OwnedHasBoss
<1>2. CASE Reset
  BY <1>2 DEF Reset, EmptyBoss, SeatInv, Phase, ValidCall, OwnedHasBoss
<1> USE DEF TypeInv, TypeOK
<1>3. CASE CleanupTick
  <2>1. \A s \in Seats : /\ bosses'[s].id = bosses[s].id
                          /\ bosses'[s].object = bosses[s].object
                          /\ bosses'[s].phase = bosses[s].phase
    BY <1>3 DEF CleanupTick, Boss
  <2>2. UNCHANGED <<owner, actor>>
    BY <1>3 DEF CleanupTick, callVars, pendingVars
  <2>3. QED
    BY <2>1, <2>2, SameSeats DEF SeatInv, Phase, ValidCall, OwnedHasBoss, Owners
<1>4. CASE CleanupBoss
  <2> DEFINE cleared == [bosses EXCEPT ![seat] = EmptyBoss]
             d == First(FreeItems)
  <2>1. UNCHANGED actor
    BY <1>4 DEF CleanupBoss, callVars, pendingVars
  <2>2. CASE ~ValidCall(actor, cleared)
    <3>1. UNCHANGED <<bosses, owner>>
      BY <1>4, <2>2 DEF CleanupBoss
    <3>2. QED
      BY <1>1, <2>1, <3>1
  <2>3. CASE ValidCall(actor, cleared)
    <3>1. bosses' = cleared /\ owner' = [Disowned EXCEPT ![d] = Nobody]
      BY <1>4, <2>3 DEF CleanupBoss
    <3>2. \A s \in Seats : s # seat => bosses'[s] = bosses[s]
      BY <3>1
    <3>3. bosses'[seat] = EmptyBoss
      BY <3>1
    <3>4. \A e \in Slots : owner'[e] # Nobody => owner'[e] = owner[e] /\ owner[e] # seat
      BY <3>1 DEF Disowned
    <3>5. \A e \in Slots : owner'[e] # Nobody => bosses'[owner'[e]].phase # "EMPTY"
      <4>1. \A e \in Slots : owner[e] # Nobody => bosses[owner[e]].phase # "EMPTY"
        BY DEF SeatInv, OwnedHasBoss, Phase
      <4>2. \A e \in Slots : owner[e] # Nobody => owner[e] \in Seats
        BY DEF Owners
      <4>3. QED
        BY <3>2, <3>4, <4>1, <4>2
    <3>6. actor' # Nobody => bosses'[actor'].phase # "EMPTY"
      BY <2>1, <2>3, <3>1 DEF ValidCall
    <3>7. bosses'[seat].phase = "EMPTY" /\ bosses'[seat].id = NoBoss
      BY <3>3 DEF EmptyBoss
    <3>8. \A s \in Seats : bosses'[s].phase # "EMPTY" =>
            s # seat /\ bosses'[s] = bosses[s] /\ bosses[s].phase # "EMPTY"
      BY <3>2, <3>7
    <3>9. \A s \in Seats : bosses'[s].phase = "EMPTY" <=> bosses'[s].id = NoBoss
      <4>1. \A s \in Seats : bosses[s].phase = "EMPTY" <=> bosses[s].id = NoBoss
        BY DEF SeatInv, Phase
      <4>2. TAKE s \in Seats
      <4>3. CASE s = seat
        BY <3>7, <4>3
      <4>4. CASE s # seat
        BY <3>2, <4>1, <4>4
      <4>5. QED
        BY <4>3, <4>4
    <3>10. QED
      BY <3>5, <3>6, <3>8, <3>9 DEF SeatInv, Phase, ValidCall, OwnedHasBoss
  <2>4. QED
    BY <2>2, <2>3
<1>5. CASE CleanupRetry
  <2>1. \A s \in Seats : /\ bosses'[s].id = bosses[s].id
                          /\ bosses'[s].object = bosses[s].object
                          /\ bosses'[s].phase = bosses[s].phase
    BY <1>5 DEF CleanupRetry, Boss
  <2>2. \A d \in Slots : owner'[d] # Nobody => owner'[d] = owner[d]
    BY <1>5 DEF CleanupRetry, Disowned
  <2>3. UNCHANGED actor
    BY <1>5 DEF CleanupRetry, callVars, pendingVars
  <2>4. \A d \in Slots : owner'[d] # Nobody => bosses[owner'[d]].phase # "EMPTY"
    BY <2>2 DEF SeatInv, Phase, OwnedHasBoss
  <2>5. actor' # Nobody => actor' \in Seats /\ bosses[actor'].phase # "EMPTY"
    BY <2>3 DEF SeatInv, Phase, ValidCall, Owners
  <2>6. QED
    BY <2>1, <2>4, <2>5, SameSeats
<1>6. CASE SpawnBoss
  <2> DEFINE object == First(Free(EnemySlots))
  <2>1. object \in EnemySlots /\ object \in Slots
    <3>1. Free(EnemySlots) \in SUBSET Slots /\ Free(EnemySlots) # {}
      BY <1>6 DEF SpawnBoss, Free, Slots
    <3>2. object \in Free(EnemySlots)
      BY <3>1, FirstIsMember
    <3>3. QED
      BY <3>1, <3>2 DEF Free
  <2>2. PICK n \in NextBoss(queue, Present) :
            /\ n.id # NoBoss
            /\ bosses' = [bosses EXCEPT ![seat] =
                            [phase |-> "ENTERING", id |-> n.id, object |-> object,
                             ticks |-> 0, globals |-> globals]]
    BY <1>6 DEF SpawnBoss
  <2>3. Phase(seat) = "EMPTY" /\ ~Refused(object) /\ UNCHANGED actor
        /\ owner' = [owner EXCEPT ![object] = seat]
    BY <1>6 DEF SpawnBoss, callVars, pendingVars
  <2> HIDE DEF object
  <2>4. n.id \notin Present
    BY <2>2, NextBossProperties
  <2>5. \A s \in Seats : s # seat => bosses'[s] = bosses[s]
    BY <2>2
  <2>6. /\ bosses'[seat].phase = "ENTERING" /\ bosses'[seat].id = n.id
        /\ bosses'[seat].object = object
    BY <2>2
  <2>7. \A s \in Seats : s # seat /\ Phase(s) # "EMPTY" =>
            bosses[s].id # n.id /\ bosses[s].object # object
    BY <2>3, <2>4 DEF Present, Refused, Other, Seats, Phase
  <2>8. \A d \in Slots : owner'[d] # Nobody => bosses'[owner'[d]].phase # "EMPTY"
    <3>1. SUFFICES ASSUME NEW d \in Slots, owner'[d] # Nobody
                   PROVE  bosses'[owner'[d]].phase # "EMPTY"
      OBVIOUS
    <3>2. CASE owner'[d] = seat
      BY <2>6, <3>2
    <3>3. CASE owner'[d] # seat
      <4>1. owner'[d] = owner[d] /\ owner[d] \in Seats
        BY <2>1, <2>3, <3>1, <3>3 DEF Owners
      <4>2. QED
        BY <2>5, <3>1, <3>3, <4>1 DEF SeatInv, OwnedHasBoss, Phase
    <3>4. QED
      BY <3>2, <3>3
  <2>9. actor' # Nobody => bosses'[actor'].phase # "EMPTY"
    BY <2>3, <2>5, <2>6 DEF SeatInv, ValidCall, Owners
  <2>10. QED
    <3>1. \A s \in Seats : Phase(s)' = "EMPTY" <=> bosses'[s].id = NoBoss
      BY <2>2, <2>5, <2>6 DEF SeatInv, Phase
    <3>2. \A s \in Seats : Phase(s)' # "EMPTY" => bosses'[s].object \in EnemySlots
      BY <2>1, <2>5, <2>6 DEF SeatInv, Phase
    <3>3. \A s, t \in Seats :
            s # t /\ Phase(s)' # "EMPTY" /\ Phase(t)' # "EMPTY" =>
                bosses'[s].id # bosses'[t].id /\ bosses'[s].object # bosses'[t].object
      <4> SUFFICES ASSUME NEW s \in Seats, NEW t \in Seats, s # t,
                          Phase(s)' # "EMPTY", Phase(t)' # "EMPTY"
                   PROVE  bosses'[s].id # bosses'[t].id /\ bosses'[s].object # bosses'[t].object
        OBVIOUS
      <4>1. CASE s = seat
        BY <2>5, <2>6, <2>7, <4>1 DEF Phase
      <4>2. CASE t = seat
        BY <2>5, <2>6, <2>7, <4>2 DEF Phase
      <4>3. CASE s # seat /\ t # seat
        BY <2>5, <4>3 DEF SeatInv, Phase
      <4>4. QED
        BY <4>1, <4>2, <4>3
    <3>4. QED
      BY <2>8, <2>9, <3>1, <3>2, <3>3 DEF SeatInv, Phase, ValidCall, OwnedHasBoss
<1>7. ASSUME NEW d \in Slots, CallEnter(d)
      PROVE  SeatInv'
  <2>1. UNCHANGED <<bosses, owner>>
    BY <1>7 DEF CallEnter, seatVars
  <2>2. actor' # Nobody => bosses[actor'].phase # "EMPTY"
    BY <1>7 DEF CallEnter, ValidCall, callVars, pendingVars
  <2>3. QED
    BY <2>1, <2>2 DEF SeatInv, Phase, ValidCall, OwnedHasBoss
<1>8. CASE CallReturn
  <2>1. actor \in Seats /\ actor' = Nobody
    BY <1>8 DEF CallReturn, Owners
  <2>2. \A s \in Seats : /\ bosses'[s].id = bosses[s].id
                          /\ bosses'[s].object = bosses[s].object
                          /\ bosses'[s].phase = bosses[s].phase
    BY <1>8, <2>1 DEF CallReturn, Boss
  <2>3. \A d \in Slots : owner'[d] # Nobody => owner'[d] \in {actor, owner[d]}
    BY <1>8 DEF CallReturn
  <2>4. \A d \in Slots : owner'[d] # Nobody => bosses[owner'[d]].phase # "EMPTY"
    BY <2>1, <2>3 DEF SeatInv, Phase, ValidCall, OwnedHasBoss
  <2>5. QED
    BY <2>1, <2>2, <2>4, SameSeats DEF Phase
<1>9. CASE DeathEntry
  <2> DEFINE s == owner[actorObject]
  <2>1. s \in Seats /\ actorObject \in Slots
    BY <1>9 DEF DeathEntry, InCall, InPlay, Owners
  <2>2. Phase(s) # "EMPTY"
    BY <1>9, <2>1 DEF SeatInv, OwnedHasBoss, DeathEntry
  <2>3. bosses' = [bosses EXCEPT ![s].phase = "DYING", ![s].ticks = 0]
    BY <1>9 DEF DeathEntry
  <2>4. UNCHANGED <<owner, actor>>
    BY <1>9 DEF DeathEntry, callVars, pendingVars
  <2> HIDE DEF s
  <2>5. \A t \in Seats : bosses'[t] = IF t = s THEN [bosses[t] EXCEPT !.phase = "DYING", !.ticks = 0]
                                          ELSE bosses[t]
    BY <2>1, <2>3
  <2>6. \A t \in Seats : bosses[t] \in Boss
    OBVIOUS
  <2>7. ASSUME NEW t \in Seats
        PROVE  bosses'[t].id = bosses[t].id /\ bosses'[t].object = bosses[t].object
    <3>1. CASE t = s
      <4>1. bosses'[t] = [bosses[t] EXCEPT !.phase = "DYING", !.ticks = 0]
        BY <2>5, <3>1
      <4>2. QED
        BY <2>6, <4>1, DyingKeeps
    <3>2. CASE t # s
      BY <2>5, <3>2
    <3>3. QED
      BY <3>1, <3>2
  <2>8. \A t \in Seats : bosses'[t].phase = "EMPTY" <=> bosses[t].phase = "EMPTY"
    BY <2>1, <2>2, <2>5, <2>6, DyingKeeps DEF Phase
  <2>9. QED
    BY <2>4, <2>7, <2>8, SameSeats DEF SeatInv, Phase, ValidCall, OwnedHasBoss, Owners
<1>10. CASE AfterFrame
  <2>1. PICK native \in [Seats -> Natives] :
          /\ \A s \in Seats : bosses'[s].id = bosses[s].id
          /\ \A s \in Seats : bosses'[s].object = bosses[s].object
          /\ \A s \in Seats : bosses'[s].phase = Observed(s, native[s])
    BY <1>10, AfterFrameSeats
  <2>2. \A s \in Seats : bosses'[s].phase = "EMPTY" <=> bosses[s].phase = "EMPTY"
    BY <2>1 DEF Observed, Phase
  <2>3. UNCHANGED owner /\ actor' \in {actor, Nobody}
    BY <1>10 DEF AfterFrame
  <2>4. QED
    BY <2>1, <2>2, <2>3, SameSeats DEF SeatInv, Phase, ValidCall, OwnedHasBoss, Owners
<1>11. QED
  BY <1>1, <1>2, <1>3, <1>4, <1>5, <1>6, <1>7, <1>8, <1>9, <1>10, SeatSteps

LEMMA SeatInit == Init => SeatInv
  BY DEF Init, EmptyBoss, SeatInv, Phase, ValidCall, OwnedHasBoss

LEMMA SeatInvariant == Spec => []SeatInv
  BY SeatInit, SeatStep, TypeInvariant, PTL DEF Spec

\* The upload of the battle music is pending only while the run is prepared.
MusicInv == loaded = "MUSIC_PENDING" => mode = "PREPARING"

LEMMA MusicStep == MusicInv /\ [Next]_vars => MusicInv'
<1> SUFFICES ASSUME MusicInv, [Next]_vars
             PROVE  MusicInv'
  OBVIOUS
<1> DEFINE Same == UNCHANGED <<mode, loaded>>
<1> USE DEF MusicInv
<1>1. CASE PcStep
  BY <1>1 DEF PcStep, FrameIdle, FrameSeats, NothingToClean, NothingToSpawn, RunGuest,
              FreezeGuest, SchedulerReturns, AfterFrameIdle, rushVars
<1>2. CASE Load \/ TitleReached \/ HardwareReset
  BY <1>2 DEF Load, TitleReached, HardwareReset, Reset
<1>3. CASE MainMenu \/ AfterFrame
  BY <1>3 DEF MainMenu, AfterFrame
<1>4. CASE Prepare \/ ArenaTrigger \/ MusicUploaded
  BY <1>4 DEF Prepare, ArenaTrigger, MusicUploaded
<1>5. CASE CleanupTick \/ CleanupBoss \/ CleanupRetry \/ DrawWasted \/ SpawnBoss
  BY <1>5 DEF CleanupTick, CleanupBoss, CleanupRetry, DrawWasted, SpawnBoss, rushVars
<1>6. CASE StageStart \/ LogoDone
  BY <1>6 DEF StageStart, LogoDone
<1>7. CASE CallReturn \/ CallEndsObject \/ CallWritesGlobals \/ BodyAdvances \/ DeathEntry
  BY <1>7 DEF CallReturn, CallEndsObject, CallWritesGlobals, BodyAdvances, DeathEntry,
              rushVars
<1>8. ASSUME NEW d \in Slots,
             CallEnter(d) \/ CallSpawns(d) \/ WorldSpawns(d) \/ WorldEnds(d)
                \/ PlayerShotClears(d)
      PROVE  MusicInv'
  BY <1>8 DEF CallEnter, CallSpawns, WorldSpawns, WorldEnds, PlayerShotClears, rushVars
<1>9. ASSUME NEW p \in Players, HitPlayer(p) \/ DeathAnimationEnds(p)
      PROVE  MusicInv'
  BY <1>9 DEF HitPlayer, DeathAnimationEnds, rushVars
<1>10. CASE UNCHANGED vars
  BY <1>10 DEF vars, rushVars
<1>11. QED
  BY <1>1, <1>2, <1>3, <1>4, <1>5, <1>6, <1>7, <1>8, <1>9, <1>10
  DEF Next, FrameStep, GuestStep, PcStep

\* Every state the host keeps passes MmxBossRushValidState, also while a call is
\* suspended at a frame boundary: a snapshot taken at any point loads again.
THEOREM ValidStateAlways == Spec => []ValidState
<1>1. Init => MusicInv
  BY DEF Init, MusicInv
<1>2. TypeInv /\ SeatInv /\ MusicInv => ValidState
  BY DEF TypeInv, SeatInv, MusicInv, ValidState, SeatsDistinct, Seats
<1>3. QED
  BY <1>1, <1>2, MusicStep, TypeInvariant, SeatInvariant, PTL DEF Spec

\* Only a seat that holds a boss owns objects.
THEOREM OwnedHasBossAlways == Spec => []OwnedHasBoss
<1>1. SeatInv => OwnedHasBoss
  BY DEF SeatInv
<1>2. QED
  BY <1>1, SeatInvariant, PTL
--------------------------------------------------------------------------------
\* The run counters.  A defeat takes one standing boss away and adds one to the
\* count; an assignment adds one to both sides; the assignment counter wraps.

\* The relation of the two counters g and d to n standing bosses.
CountRel(g, d, n) == d < CounterMax => g = d + n \/ g + CounterMax + 1 = d + n

LEMMA CountSums ==
    ASSUME NEW g \in 0..CounterMax, NEW d \in 0..CounterMax,
           NEW m \in {0, 1}, NEW n \in {0, 1}
    PROVE  CountRel(g, d, m + n) <=>
            (d < CounterMax => \/ g = d + m + n
                               \/ g + CounterMax + 1 = d + m + n)
  BY CountersAssumption DEF CountRel

LEMMA SpawnCounts ==
    ASSUME NEW g \in 0..CounterMax, NEW d \in 0..CounterMax, NEW n \in {0, 1},
           CountRel(g, d, n)
    PROVE  CountRel(Wrap(g), d, n + 1)
<1>1. CounterMax \in Nat
  BY CountersAssumption
<1>2. CASE g < CounterMax
  BY <1>1, <1>2 DEF CountRel, Wrap
<1>3. CASE ~(g < CounterMax)
  <2>1. g = CounterMax /\ Wrap(g) = 0
    BY <1>1, <1>3 DEF Wrap
  <2>2. QED
    BY <1>1, <2>1 DEF CountRel
<1>4. QED
  BY <1>2, <1>3

LEMMA DefeatCounts ==
    ASSUME NEW g \in 0..CounterMax, NEW d \in 0..CounterMax, NEW n \in {1, 2},
           CountRel(g, d, n)
    PROVE  CountRel(g, Saturate(d), n - 1)
<1>1. CounterMax \in Nat
  BY CountersAssumption
<1>2. CASE d < CounterMax
  <2>1. Saturate(d) = d + 1
    BY <1>2 DEF Saturate
  <2>2. QED
    BY <1>1, <1>2, <2>1 DEF CountRel
<1>3. CASE ~(d < CounterMax)
  BY <1>1, <1>3 DEF CountRel, Saturate
<1>4. QED
  BY <1>2, <1>3

LEMMA CountStep ==
    TypeInv /\ TypeInv' /\ SeatInv /\ DefeatsCounted /\ [Next]_vars => DefeatsCounted'
<1> SUFFICES ASSUME TypeInv, TypeInv', SeatInv, DefeatsCounted, [Next]_vars
             PROVE  DefeatsCounted'
  OBVIOUS
<1>t. /\ generation \in 0..CounterMax /\ defeated \in 0..CounterMax
      /\ generation' \in 0..CounterMax /\ defeated' \in 0..CounterMax
      /\ bosses \in [Seats -> Boss] /\ seat \in Seats
      /\ owner \in [Slots -> Owners] /\ actor \in Owners
      /\ actor # Nobody => actorObject \in Slots
  BY DEF TypeInv, TypeOK
<1>s. Standing(1) \in {0, 1} /\ Standing(2) \in {0, 1}
      /\ Standing(1)' \in {0, 1} /\ Standing(2)' \in {0, 1}
  BY DEF Standing
<1>1. CountRel(generation, defeated, Standing(1) + Standing(2))
  BY <1>t, <1>s, CountSums DEF DefeatsCounted
<1>0. ASSUME CountRel(generation', defeated', Standing(1)' + Standing(2)')
      PROVE  DefeatsCounted'
  BY <1>0, <1>t, <1>s, CountSums DEF DefeatsCounted
<1>2. ASSUME UNCHANGED <<generation, defeated>>,
             \A s \in Seats : bosses'[s].phase = bosses[s].phase
      PROVE  DefeatsCounted'
  <2>1. Standing(1)' = Standing(1) /\ Standing(2)' = Standing(2)
    BY <1>2 DEF Standing, Phase, Seats
  <2>2. QED
    BY <1>2, <2>1 DEF DefeatsCounted
<1>3. CASE UNCHANGED <<bosses, generation, defeated>>
  BY <1>2, <1>3
<1>4. CASE Reset
  <2>1. \A s \in Seats : bosses'[s].phase = "EMPTY"
    BY <1>4 DEF Reset, EmptyBoss
  <2>2. Standing(1)' = 0 /\ Standing(2)' = 0
    BY <2>1 DEF Standing, Phase, Seats
  <2>3. generation' = 0 /\ defeated' = 0
    BY <1>4 DEF Reset
  <2>4. QED
    BY <2>2, <2>3 DEF DefeatsCounted
<1>5. CASE CleanupTick
  <2>1. \A s \in Seats : bosses'[s].phase = bosses[s].phase
    BY <1>5, <1>t DEF CleanupTick, Boss
  <2>2. QED
    BY <1>2, <1>5, <2>1 DEF CleanupTick
<1>6. CASE CleanupRetry
  <2>1. \A s \in Seats : bosses'[s].phase = bosses[s].phase
    BY <1>6, <1>t DEF CleanupRetry, Boss
  <2>2. QED
    BY <1>2, <1>6, <2>1 DEF CleanupRetry
<1>7. CASE CleanupBoss
  <2>1. Phase(seat) = "DYING" /\ UNCHANGED <<generation, defeated>>
    BY <1>7 DEF CleanupBoss, CleanupDue
  <2>2. bosses' = bosses \/ bosses' = [bosses EXCEPT ![seat] = EmptyBoss]
    BY <1>7 DEF CleanupBoss
  <2>3. \A s \in Seats : Standing(s)' = Standing(s)
    BY <2>1, <2>2, <1>t DEF Standing, Phase, EmptyBoss
  <2>4. QED
    BY <2>1, <2>3 DEF DefeatsCounted, Seats
<1>8. CASE SpawnBoss
  <2>1. Phase(seat) = "EMPTY" /\ bosses'[seat].phase = "ENTERING"
    BY <1>8, <1>t DEF SpawnBoss
  <2>2. \A s \in Seats : s # seat => bosses'[s] = bosses[s]
    BY <1>8, <1>t DEF SpawnBoss
  <2>3. \A s \in Seats : s = seat => Standing(s) = 0 /\ Standing(s)' = 1
    BY <2>1 DEF Standing, Phase
  <2>4. \A s \in Seats : s # seat => Standing(s)' = Standing(s)
    BY <2>2 DEF Standing, Phase
  <2>5. /\ Standing(1)' + Standing(2)' = Standing(1) + Standing(2) + 1
        /\ Standing(1) + Standing(2) \in {0, 1}
    <3>1. CASE seat = 1
      BY <2>3, <2>4, <3>1, <1>s, <1>t DEF Seats
    <3>2. CASE seat = 2
      BY <2>3, <2>4, <3>2, <1>s, <1>t DEF Seats
    <3>3. QED
      BY <3>1, <3>2, <1>t DEF Seats
  <2>6. generation' = Wrap(generation) /\ defeated' = defeated
    BY <1>8 DEF SpawnBoss
  <2>7. CountRel(Wrap(generation), defeated, Standing(1) + Standing(2) + 1)
    BY <1>t, <1>1, <2>5, SpawnCounts
  <2>8. CountRel(generation', defeated', Standing(1)' + Standing(2)')
    BY <2>5, <2>6, <2>7
  <2>9. QED
    BY <1>0, <2>8
<1>9. ASSUME NEW d \in Slots, CallEnter(d)
      PROVE  DefeatsCounted'
  BY <1>2, <1>9 DEF CallEnter, seatVars
<1>10. CASE CallReturn
  <2>1. \A s \in Seats : bosses'[s].phase = bosses[s].phase
    BY <1>10, <1>t DEF CallReturn, Boss, Owners
  <2>2. QED
    BY <1>2, <1>10, <2>1 DEF CallReturn
<1>11. CASE DeathEntry
  <2>1. PICK s \in Seats : s = owner[actorObject]
    BY <1>11, <1>t DEF DeathEntry, InCall, InPlay, Owners
  <2>2. Phase(s) \notin {"EMPTY", "DYING"}
    BY <1>11, <2>1, <1>t DEF SeatInv, OwnedHasBoss, DeathEntry, InCall, InPlay
  <2>3. bosses' = [bosses EXCEPT ![s].phase = "DYING", ![s].ticks = 0]
    BY <1>11, <2>1 DEF DeathEntry
  <2>4. Standing(s) = 1 /\ Standing(s)' = 0
    BY <2>2, <2>3, <1>t DEF Standing, Phase, Boss, Phases
  <2>5. \A t \in Seats : t # s => Standing(t)' = Standing(t)
    BY <2>3, <1>t DEF Standing, Phase
  <2>6. /\ Standing(1)' + Standing(2)' = Standing(1) + Standing(2) - 1
        /\ Standing(1) + Standing(2) \in {1, 2}
    <3>1. CASE s = 1
      BY <2>4, <2>5, <3>1, <1>s, <1>t DEF Seats
    <3>2. CASE s = 2
      BY <2>4, <2>5, <3>2, <1>s, <1>t DEF Seats
    <3>3. QED
      BY <3>1, <3>2, <1>t DEF Seats
  <2>7. generation' = generation /\ defeated' = Saturate(defeated)
    BY <1>11 DEF DeathEntry
  <2>8. CountRel(generation, Saturate(defeated), Standing(1) + Standing(2) - 1)
    <3> DEFINE n == Standing(1) + Standing(2)
    <3>1. n \in {1, 2} /\ CountRel(generation, defeated, n)
      BY <1>1, <2>6
    <3> HIDE DEF n
    <3>2. CountRel(generation, Saturate(defeated), n - 1)
      BY <3>1, <1>t, DefeatCounts
    <3>3. QED
      BY <3>2, <1>s, <1>t DEF n, CountRel
  <2>9. CountRel(generation', defeated', Standing(1)' + Standing(2)')
    BY <2>6, <2>7, <2>8
  <2>10. QED
    BY <1>0, <2>9
<1>12. CASE AfterFrame
  <2>1. PICK native \in [Seats -> Natives] :
          /\ \A s \in Seats : bosses'[s].phase = Observed(s, native[s])
          /\ defeated' = Counted(native)
    BY <1>12, AfterFrameSeats DEF TypeInv
  <2> DEFINE fall(s) == Falls(s, native)
             one == IF fall(1) THEN Saturate(defeated) ELSE defeated
  <2>2. \A s \in Seats : fall(s) => Standing(s) = 1 /\ Standing(s)' = 0
    BY <2>1 DEF Falls, Observed, Standing, Phase
  <2>3. \A s \in Seats : ~fall(s) => Standing(s)' = Standing(s)
    BY <2>1 DEF Falls, Observed, Standing, Phase
  <2>4. one \in 0..CounterMax
    BY <1>t, SaturateBounded
  <2>5. CountRel(generation, one, Standing(1)' + Standing(2))
    <3>1. CASE fall(1)
      <4>1. Standing(1) = 1 /\ Standing(1)' = 0 /\ one = Saturate(defeated)
        BY <2>2, <3>1 DEF Seats
      <4>2. Standing(1) + Standing(2) \in {1, 2}
        BY <4>1, <1>s
      <4>3. CountRel(generation, one, Standing(1) + Standing(2) - 1)
        <5> DEFINE n == Standing(1) + Standing(2)
        <5>1. n \in {1, 2} /\ CountRel(generation, defeated, n)
          BY <1>1, <4>2
        <5> HIDE DEF n
        <5>2. CountRel(generation, Saturate(defeated), n - 1)
          BY <1>t, <5>1, DefeatCounts
        <5>3. QED
          BY <4>1, <5>2, <1>s, <1>t DEF n, CountRel
      <4>4. Standing(1) + Standing(2) - 1 = Standing(1)' + Standing(2)
        BY <4>1, <1>s
      <4>5. QED
        BY <4>3, <4>4
    <3>2. CASE ~fall(1)
      BY <1>1, <2>3, <3>2 DEF Seats
    <3>3. QED
      BY <3>1, <3>2
  <2>6. defeated' = IF fall(2) THEN Saturate(one) ELSE one
    BY <2>1 DEF Counted
  <2> HIDE DEF one
  <2>7. CountRel(generation, defeated', Standing(1)' + Standing(2)')
    <3>1. CASE fall(2)
      <4>1. Standing(2) = 1 /\ Standing(2)' = 0 /\ defeated' = Saturate(one)
        BY <2>2, <2>6, <3>1 DEF Seats
      <4>2. Standing(1)' \in {0, 1}
        BY <1>s
      <4>3. Standing(1)' + Standing(2) \in {1, 2}
        BY <4>1, <4>2
      <4>4. CountRel(generation, defeated', Standing(1)' + Standing(2) - 1)
        <5> DEFINE n == Standing(1)' + Standing(2)
        <5>1. n \in {1, 2} /\ CountRel(generation, one, n)
          BY <2>5, <4>3
        <5> HIDE DEF n
        <5>2. CountRel(generation, Saturate(one), n - 1)
          BY <2>4, <5>1, <1>t, DefeatCounts
        <5>3. QED
          BY <4>1, <5>2, <1>s, <1>t DEF n, CountRel
      <4>5. Standing(1)' + Standing(2) - 1 = Standing(1)' + Standing(2)'
        BY <4>1, <4>2
      <4>6. QED
        BY <4>4, <4>5
    <3>2. CASE ~fall(2)
      BY <2>3, <2>5, <2>6, <3>2 DEF Seats
    <3>3. QED
      BY <3>1, <3>2
  <2>8. generation' = generation
    BY <1>12 DEF AfterFrame
  <2>9. QED
    BY <1>0, <2>7, <2>8
<1>13. QED
  BY <1>3, <1>4, <1>5, <1>6, <1>7, <1>8, <1>9, <1>10, <1>11, <1>12, SeatSteps

\* The score counts every boss that left the fight exactly once, whichever of the
\* two paths saw it fall, and also when the assignment counter has wrapped.
THEOREM DefeatsCountedAlways == Spec => []DefeatsCounted
<1>1. Init => DefeatsCounted
  BY DEF Init, EmptyBoss, DefeatsCounted, Standing, Phase, Seats
<1>2. QED
  BY <1>1, CountStep, TypeInvariant, SeatInvariant, PTL DEF Spec
--------------------------------------------------------------------------------
\* Modes, scenes and the host's program counter.  A call is pending only in play,
\* at any step of the host's frame.
ModeInv ==
    /\ pc \in {"clean", "spawn"} => mode = "PLAYING"
    /\ mode = "PREPARING" => scene = "stage"
    /\ mode = "FINISHED" => scene = "over"
    /\ scene = "logo" => mode = "OFF"
    /\ actor # Nobody => mode = "PLAYING"

LEMMA ModeStep == ModeInv /\ [Next]_vars => ModeInv'
<1> SUFFICES ASSUME ModeInv, [Next]_vars
             PROVE  ModeInv'
  OBVIOUS
<1> USE DEF ModeInv, InPlay
<1>1. CASE PcStep
  BY <1>1 DEF PcStep, FrameIdle, FrameSeats, NothingToClean, NothingToSpawn, RunGuest,
              FreezeGuest, SchedulerReturns, AfterFrameIdle, NextSeat, rushVars, callVars, pendingVars,
              guestVars
<1>2. CASE Load \/ TitleReached \/ HardwareReset
  BY <1>2 DEF Load, TitleReached, HardwareReset, Reset, guestVars
<1>3. CASE MainMenu \/ Prepare
  BY <1>3 DEF MainMenu, Prepare, callVars, pendingVars, guestVars
<1>4. CASE CleanupTick \/ CleanupBoss \/ CleanupRetry \/ DrawWasted \/ SpawnBoss
  BY <1>4 DEF CleanupTick, CleanupBoss, CleanupRetry, CleanupDue, DrawWasted, SpawnBoss,
              NextSeat, rushVars, callVars, pendingVars, guestVars
<1>5. CASE AfterFrame
  BY <1>5 DEF AfterFrame
<1>6. CASE StageStart \/ LogoDone \/ ArenaTrigger \/ MusicUploaded
  BY <1>6 DEF StageStart, LogoDone, ArenaTrigger, MusicUploaded, callVars, pendingVars, guestVars
<1>7. CASE CallReturn \/ CallEndsObject \/ CallWritesGlobals \/ BodyAdvances \/ DeathEntry
  BY <1>7 DEF CallReturn, CallEndsObject, CallWritesGlobals, BodyAdvances, DeathEntry,
              InCall, rushVars, callVars, pendingVars, guestVars
<1>8. ASSUME NEW d \in Slots,
             CallEnter(d) \/ CallSpawns(d) \/ WorldSpawns(d) \/ WorldEnds(d)
                \/ PlayerShotClears(d)
      PROVE  ModeInv'
  BY <1>8 DEF CallEnter, CallSpawns, WorldSpawns, WorldEnds, PlayerShotClears,
              InCall, BetweenCalls, rushVars, callVars, pendingVars
<1>9. ASSUME NEW p \in Players, HitPlayer(p) \/ DeathAnimationEnds(p)
      PROVE  ModeInv'
  BY <1>9 DEF HitPlayer, DeathAnimationEnds, InCall, BetweenCalls, rushVars, callVars, pendingVars
<1>10. CASE UNCHANGED vars
  BY <1>10 DEF vars, rushVars, callVars, pendingVars, guestVars
<1>11. QED
  BY <1>1, <1>2, <1>3, <1>4, <1>5, <1>6, <1>7, <1>8, <1>9, <1>10
  DEF Next, FrameStep, GuestStep, PcStep

LEMMA ModeInvariant == Spec => []ModeInv
<1>1. Init => ModeInv
  BY DEF Init, ModeInv
<1>2. QED
  BY <1>1, ModeStep, PTL DEF Spec

\* Each defeat is owed one pickup until the cleanup of the seat pays it.
LEMMA PickupStep == TypeInv /\ SeatInv /\ PickupOwed /\ [Next]_vars => PickupOwed'
<1> SUFFICES ASSUME TypeInv, SeatInv, PickupOwed, [Next]_vars
             PROVE  PickupOwed'
  OBVIOUS
<1>t. /\ bosses \in [Seats -> Boss] /\ seat \in Seats /\ owed \in [Seats -> Int]
      /\ owner \in [Slots -> Owners] /\ actor \in Owners
      /\ actor # Nobody => actorObject \in Slots
  BY DEF TypeInv, TypeOK
<1>p. \A s \in Seats \ crossed : owed[s] = IF bosses[s].phase = "DYING" THEN 1 ELSE 0
  BY DEF PickupOwed, Phase
<1>0. ASSUME \A s \in Seats : bosses'[s].phase = bosses[s].phase, owed' = owed,
             crossed' = crossed
      PROVE  PickupOwed'
  BY <1>0, <1>p DEF PickupOwed, Phase
<1>1. CASE UNCHANGED <<bosses, crossed, owed>>
  BY <1>0, <1>1
<1>2. CASE Reset
  BY <1>2 DEF Reset, EmptyBoss, PickupOwed, Phase
<1>3. CASE CleanupTick
  BY <1>0, <1>3, <1>t DEF CleanupTick, Boss, callVars
<1>4. CASE CleanupBoss
  <2>1. bosses[seat].phase = "DYING"
    BY <1>4, <1>t DEF CleanupBoss, CleanupDue, Phase
  <2>2. \A s \in Seats \ {seat} : bosses'[s] = bosses[s] /\ owed'[s] = owed[s]
    BY <1>4, <1>t DEF CleanupBoss
  <2>3. crossed \subseteq crossed'
    BY <1>4 DEF CleanupBoss
  <2>4. ASSUME seat \notin crossed'
        PROVE  owed'[seat] = 0 /\ bosses'[seat].phase = "EMPTY"
    <3>1. actor # seat /\ seat \notin crossed
      BY <1>4, <2>3, <2>4 DEF CleanupBoss
    <3>2. bosses' = [bosses EXCEPT ![seat] = EmptyBoss]
      <4>1. SUFFICES ValidCall(actor, [bosses EXCEPT ![seat] = EmptyBoss])
        BY <1>4 DEF CleanupBoss
      <4>2. QED
        BY <3>1, <1>t DEF ValidCall, SeatInv, Owners
    <3>3. owed[seat] = 1
      BY <2>1, <3>1, <1>p, <1>t
    <3>4. owed' = [owed EXCEPT ![seat] = 0]
      BY <1>4, <3>3, <1>t DEF CleanupBoss
    <3>5. QED
      BY <3>2, <3>4, <1>t DEF EmptyBoss
  <2>5. QED
    BY <2>2, <2>3, <2>4, <1>p DEF PickupOwed, Phase
<1>5. CASE CleanupRetry
  BY <1>0, <1>5, <1>t DEF CleanupRetry, Boss
<1>6. CASE SpawnBoss
  <2>1. bosses'[seat].phase = "ENTERING" /\ owed'[seat] = 0
    BY <1>6, <1>t DEF SpawnBoss
  <2>2. \A s \in Seats \ {seat} : bosses'[s] = bosses[s] /\ owed'[s] = owed[s]
    BY <1>6, <1>t DEF SpawnBoss
  <2>3. crossed \ {seat} \subseteq crossed'
    BY <1>6 DEF SpawnBoss
  <2>4. QED
    BY <2>1, <2>2, <2>3, <1>p DEF PickupOwed, Phase
<1>7. ASSUME NEW d \in Slots, CallEnter(d)
      PROVE  PickupOwed'
  BY <1>0, <1>7 DEF CallEnter, seatVars
<1>8. CASE CallReturn
  <2>1. \A s \in Seats : bosses'[s].phase = bosses[s].phase
    BY <1>8, <1>t DEF CallReturn, Boss, Owners
  <2>2. QED
    BY <1>0, <1>8, <2>1 DEF CallReturn
<1>9. CASE DeathEntry
  <2>1. PICK s \in Seats : s = owner[actorObject]
    BY <1>9, <1>t DEF DeathEntry, InCall, InPlay, Owners
  <2>2. /\ bosses[s].phase # "DYING"
        /\ bosses' = [bosses EXCEPT ![s].phase = "DYING", ![s].ticks = 0]
        /\ owed' = [owed EXCEPT ![s] = owed[s] + 1] /\ crossed' = crossed
    BY <1>9, <2>1 DEF DeathEntry, Phase, callVars
  <2>3. bosses'[s].phase = "DYING" /\ \A r \in Seats : r # s => bosses'[r] = bosses[r]
    BY <2>2, <1>t DEF Boss
  <2>4. QED
    BY <2>2, <2>3, <1>p, <1>t DEF PickupOwed, Phase
<1>10. CASE AfterFrame
  <2>1. PICK native \in [Seats -> Natives] :
          /\ \A s \in Seats : bosses'[s].phase = Observed(s, native[s])
          /\ owed' = [s \in Seats |->
                            IF Falls(s, native) THEN owed[s] + 1 ELSE owed[s]]
    BY <1>10, AfterFrameSeats DEF TypeInv
  <2>2. \A s \in Seats : bosses[s].phase = "DYING" => bosses'[s].phase = "DYING"
    BY <2>1 DEF Observed, Phase
  <2>3. ASSUME NEW s \in Seats \ crossed
        PROVE  owed'[s] = IF bosses'[s].phase = "DYING" THEN 1 ELSE 0
    <3>1. CASE Falls(s, native)
      BY <2>1, <3>1, <1>p DEF Falls, Phase
    <3>2. CASE ~Falls(s, native)
      BY <2>1, <2>2, <3>2, <1>p DEF Falls, Phase
    <3>3. QED
      BY <3>1, <3>2
  <2>4. crossed' = crossed
    BY <1>10 DEF AfterFrame
  <2>5. QED
    BY <2>3, <2>4 DEF PickupOwed, Phase
<1>11. QED
  BY <1>1, <1>2, <1>3, <1>4, <1>5, <1>6, <1>7, <1>8, <1>9, <1>10, SeatSteps

\* Each defeat is paid by exactly one health pickup, however long the item pool
\* stays full and however many frames a call lasts; only a seat whose cleanup came
\* due in its own suspended call is excepted.
THEOREM PickupOwedAlways == Spec => []PickupOwed
<1>1. Init => PickupOwed
  BY DEF Init, EmptyBoss, PickupOwed, Phase
<1>2. TypeInv /\ SeatInv /\ PickupOwed /\ [Next]_vars => PickupOwed'
  BY PickupStep
<1>3. QED
  BY <1>1, <1>2, TypeInvariant, SeatInvariant, PTL DEF Spec

\* Both: what is counted once is paid once.
THEOREM DefeatsSettledAlways == Spec => []DefeatsSettled
<1>1. DefeatsCounted /\ PickupOwed => DefeatsSettled
  BY DEF DefeatsSettled
<1>2. QED
  BY <1>1, DefeatsCountedAlways, PickupOwedAlways, PTL
--------------------------------------------------------------------------------
\* Scene globals.  During a call the world's are saved and the boss's are in use,
\* from the stage's start to the end of the run.
InStage ==
    \/ mode \in {"PLAYING", "PREPARING"}
    \/ mode = "LOADING" /\ scene = "stage"

GlobalsInv ==
    /\ InStage /\ actor = Nobody => globals = Nobody
    /\ actor # Nobody => saved = Nobody
    /\ actor # Nobody /\ actor \notin crossed => globals \in {Nobody, actor}
    /\ \A s \in Seats \ crossed : bosses[s].globals \in {Nobody, s}

LEMMA GlobalsStep == TypeInv /\ SeatInv /\ ModeInv /\ GlobalsInv /\ [Next]_vars => GlobalsInv'
<1> SUFFICES ASSUME TypeInv, SeatInv, ModeInv, GlobalsInv, [Next]_vars
             PROVE  GlobalsInv'
  OBVIOUS
<1>t. /\ bosses \in [Seats -> Boss] /\ seat \in Seats
      /\ owner \in [Slots -> Owners] /\ actor \in Owners
      /\ actor # Nobody => actorObject \in Slots
  BY DEF TypeInv, TypeOK
<1>i. actor # Nobody => mode = "PLAYING"
  BY DEF ModeInv
<1>0. ASSUME UNCHANGED <<actor, saved, globals, crossed>>, InStage' => InStage,
             \A s \in Seats : bosses'[s].globals = bosses[s].globals
      PROVE  GlobalsInv'
  BY <1>0 DEF GlobalsInv
<1>1. CASE PcStep \/ MainMenu \/ Prepare
  <2>1. UNCHANGED <<bosses, actor, saved, globals, crossed>>
    BY <1>1 DEF PcStep, FrameIdle, FrameSeats, NothingToClean, NothingToSpawn, RunGuest,
          FreezeGuest, SchedulerReturns, AfterFrameIdle, MainMenu, Prepare, seatVars,
          callVars, pendingVars, guestVars
  <2>2. InStage' => InStage
    BY <1>1 DEF PcStep, FrameIdle, FrameSeats, NothingToClean, NothingToSpawn, RunGuest,
          FreezeGuest, SchedulerReturns, AfterFrameIdle, MainMenu, Prepare, rushVars,
          guestVars, InStage, ModeInv
  <2>3. QED
    BY <1>0, <2>1, <2>2
<1>2. CASE TitleReached \/ HardwareReset
  BY <1>2 DEF TitleReached, HardwareReset, Reset, EmptyBoss, GlobalsInv
<1>3. CASE Load
  BY <1>3 DEF Load, Reset, EmptyBoss, GlobalsInv, InStage, ModeInv, guestVars
<1>4. CASE StageStart
  <2>1. actor = Nobody
    BY <1>4, <1>i DEF StageStart
  <2>2. QED
    BY <1>4, <2>1 DEF StageStart, GlobalsInv, seatVars, callVars, pendingVars
<1>5. CASE LogoDone \/ ArenaTrigger \/ MusicUploaded
  <2>1. UNCHANGED <<bosses, actor, saved, globals, crossed>>
    BY <1>5 DEF LogoDone, ArenaTrigger, MusicUploaded, seatVars, callVars, pendingVars,
                guestVars
  <2>2. InStage' => InStage
    BY <1>5 DEF LogoDone, ArenaTrigger, MusicUploaded, guestVars, InStage, ModeInv
  <2>3. QED
    BY <1>0, <2>1, <2>2
<1>6. CASE CleanupTick \/ CleanupRetry
  <2>1. \A s \in Seats : bosses'[s].globals = bosses[s].globals
    BY <1>6, <1>t DEF CleanupTick, CleanupRetry, Boss
  <2>2. UNCHANGED <<actor, saved, globals, crossed, mode, scene>>
    BY <1>6 DEF CleanupTick, CleanupRetry, rushVars, callVars, pendingVars, guestVars
  <2>3. QED
    BY <1>0, <2>1, <2>2 DEF InStage
<1>7. CASE CleanupBoss
  <2>1. bosses' = bosses \/ bosses' = [bosses EXCEPT ![seat] = EmptyBoss]
    BY <1>7 DEF CleanupBoss
  <2>2. UNCHANGED <<actor, saved, globals, mode, scene>> /\ crossed \subseteq crossed'
    BY <1>7 DEF CleanupBoss, rushVars, callVars, pendingVars
  <2>3. QED
    BY <2>1, <2>2, <1>t DEF GlobalsInv, InStage, EmptyBoss
<1>8. CASE DrawWasted
  BY <1>0, <1>8 DEF DrawWasted, rushVars, callVars, pendingVars, guestVars, InStage
<1>9. CASE SpawnBoss
  <2>1. actor = Nobody => globals = Nobody
    BY <1>9 DEF SpawnBoss, ModeInv, InStage, GlobalsInv
  <2>2. bosses'[seat].globals = globals
    BY <1>9, <1>t DEF SpawnBoss
  <2>3. \A s \in Seats : s # seat => bosses'[s] = bosses[s]
    BY <1>9, <1>t DEF SpawnBoss
  <2>4. UNCHANGED <<actor, saved, globals, mode, scene>>
    BY <1>9 DEF SpawnBoss, rushVars, callVars, pendingVars
  <2>5. crossed' = IF actor # Nobody THEN crossed \cup {seat} ELSE crossed \ {seat}
    BY <1>9 DEF SpawnBoss
  <2>6. QED
    BY <2>1, <2>2, <2>3, <2>4, <2>5, <1>t DEF GlobalsInv, InStage
<1>10. ASSUME NEW d \in Slots, CallEnter(d)
       PROVE  GlobalsInv'
  <2>1. actor = Nobody /\ owner[d] \in Seats /\ globals = Nobody
    BY <1>10, <1>t DEF CallEnter, InPlay, Owners, GlobalsInv, InStage
  <2>2. /\ owner[d] \notin crossed => globals' \in {Nobody, owner[d]}
        /\ UNCHANGED <<bosses, crossed>>
    BY <1>10, <2>1 DEF CallEnter, GlobalsInv, seatVars
  <2>3. ValidCall(owner[d], bosses)
    BY <2>1 DEF ValidCall, SeatInv, OwnedHasBoss, Phase
  <2>4. QED
    BY <1>10, <2>1, <2>2, <2>3 DEF CallEnter, GlobalsInv, Seats, Nobody
<1>11. CASE CallReturn
  <2>1. actor \in Seats /\ saved = Nobody
        /\ (actor \notin crossed => globals \in {Nobody, actor})
    BY <1>11, <1>t DEF CallReturn, Owners, GlobalsInv
  <2>2. bosses'[actor].globals = globals
        /\ \A s \in Seats : s # actor => bosses'[s] = bosses[s]
    BY <1>11, <2>1, <1>t DEF CallReturn, Boss
  <2>3. QED
    BY <1>11, <2>1, <2>2 DEF CallReturn, GlobalsInv
<1>12. CASE CallEndsObject \/ BodyAdvances
  BY <1>0, <1>12 DEF CallEndsObject, BodyAdvances, rushVars, seatVars, callVars, pendingVars,
                     InStage
<1>13. CASE CallWritesGlobals
  BY <1>13 DEF CallWritesGlobals, InCall, GlobalsInv, seatVars, callVars, pendingVars
<1>14. CASE DeathEntry
  <2>1. PICK s \in Seats : s = owner[actorObject]
    BY <1>14, <1>t DEF DeathEntry, InCall, InPlay, Owners
  <2>2. bosses' = [bosses EXCEPT ![s].phase = "DYING", ![s].ticks = 0]
    BY <1>14, <2>1 DEF DeathEntry
  <2>3. \A r \in Seats : bosses'[r].globals = bosses[r].globals
    BY <2>2, <1>t DEF Boss
  <2>4. QED
    BY <1>0, <1>14, <2>3
    DEF DeathEntry, rushVars, callVars, pendingVars, guestVars, InStage
<1>15. ASSUME NEW d \in Slots,
              CallSpawns(d) \/ WorldSpawns(d) \/ WorldEnds(d) \/ PlayerShotClears(d)
       PROVE  GlobalsInv'
  BY <1>0, <1>15 DEF CallSpawns, WorldSpawns, WorldEnds, PlayerShotClears, rushVars, seatVars,
                     callVars, pendingVars, InStage
<1>16. ASSUME NEW p \in Players, HitPlayer(p) \/ DeathAnimationEnds(p)
       PROVE  GlobalsInv'
  BY <1>0, <1>16 DEF HitPlayer, DeathAnimationEnds, rushVars, seatVars, callVars, pendingVars,
                     InStage
<1>17. CASE AfterFrame
  <2>1. \A s \in Seats : bosses'[s].globals = bosses[s].globals
    BY <1>17, AfterFrameSeats DEF TypeInv
  <2>2. /\ UNCHANGED <<saved, globals, crossed>> /\ mode = "PLAYING"
        /\ \/ mode' = "FINISHED" /\ actor' = Nobody
           \/ UNCHANGED <<mode, actor>>
    BY <1>17 DEF AfterFrame
  <2>3. QED
    BY <2>1, <2>2 DEF GlobalsInv, InStage
<1>18. CASE UNCHANGED vars
  BY <1>0, <1>18 DEF vars, rushVars, seatVars, callVars, pendingVars, guestVars, InStage
<1>19. QED
  BY <1>1, <1>2, <1>3, <1>4, <1>5, <1>6, <1>7, <1>8, <1>9, <1>10, <1>11, <1>12, <1>13,
     <1>14, <1>15, <1>16, <1>17, <1>18
  DEF Next, FrameStep, GuestStep, PcStep

\* A boss's scene globals stay inside its calls, also in calls that the frames' ends
\* cut into pieces: no call leaves them to the world, none takes them to the other
\* seat; only a seat filled behind a pending call may begin with the other's.
THEOREM GlobalsIsolatedAlways == Spec => []GlobalsIsolated
<1>1. Init => GlobalsInv
  BY DEF Init, EmptyBoss, GlobalsInv
<1>2. TypeInv /\ SeatInv /\ ModeInv /\ GlobalsInv /\ [Next]_vars => GlobalsInv'
  BY GlobalsStep
<1>3. GlobalsInv => GlobalsIsolated
  BY DEF GlobalsInv, GlobalsIsolated, InStage
<1>4. QED
  BY <1>1, <1>2, <1>3, TypeInvariant, SeatInvariant, ModeInvariant, PTL DEF Spec
--------------------------------------------------------------------------------
\* Objects.  Between calls the owner the host keeps is the seat that really
\* allocated the object, and only a projectile's slot may be stale.  In a call
\* the objects that were live before it are the same, except the updated object,
\* which may have ended and its slot have been taken again by the same boss.  All
\* this is told of the slots the host has not written behind a pending call.
Fresh == \A d \in Slots : owner[d] = Nobody /\ spawner[d] = Nobody

Told(d) ==
    /\ spawner[d] # Nobody => Phase(spawner[d]) # "EMPTY"
    /\ actor = Nobody /\ ram[d] # "free" => owner[d] = spawner[d]
    /\ actor # Nobody /\ ram[d] # "free" =>
            spawner[d] = IF d \in occupied THEN owner[d] ELSE actor
    /\ actor # Nobody /\ ram[d] = "free" /\ d \in occupied => d = actorObject
    /\ actor # Nobody /\ d = actorObject => owner[d] = actor

ObjectInv ==
    /\ mode \in {"LOADING", "PREPARING"} /\ ~returnTitle =>
            \A d \in Slots : owner[d] = Nobody
    /\ mode \in {"LOADING", "PREPARING"} /\ scene = "stage" => Fresh
    /\ mode = "OFF" => scene # "stage"
    /\ mode = "PLAYING" =>
        /\ \A d \in Slots : ram[d] = "free" => spawner[d] = Nobody
        /\ actor = Nobody =>
                \A d \in Slots : ram[d] = "free" /\ owner[d] # Nobody => d \in ShotSlots
        /\ actor # Nobody => actorObject \in occupied
        /\ \A d \in Slots \ touched : Told(d)

LEMMA ObjectStep ==
    TypeInv /\ SeatInv /\ SeatInv' /\ ModeInv /\ ObjectInv /\ [Next]_vars => ObjectInv'
<1> SUFFICES ASSUME TypeInv, SeatInv, SeatInv', ModeInv, ObjectInv, [Next]_vars
             PROVE  ObjectInv'
  OBVIOUS
<1>t. /\ bosses \in [Seats -> Boss] /\ seat \in Seats
      /\ owner \in [Slots -> Owners] /\ spawner \in [Slots -> Owners]
      /\ ram \in [Slots -> Natives \cup {"free", "other"}]
      /\ actor \in Owners /\ occupied \in SUBSET Slots
      /\ actor # Nobody => actorObject \in Slots
  BY DEF TypeInv, TypeOK
<1>i. actor # Nobody => mode = "PLAYING"
  BY DEF ModeInv
<1>f. mode = "PLAYING" => \A d \in Slots : ram[d] = "free" => spawner[d] = Nobody
  BY DEF ObjectInv
<1>r. mode = "PLAYING" => \A d \in Slots \ touched : Told(d)
  BY DEF ObjectInv
<1>n. Nobody \notin Seats
  BY DEF Seats, Nobody
<1>q. ASSUME mode' = "PLAYING",
             \A e \in Slots : ram'[e] = "free" => spawner'[e] = Nobody,
             actor' = Nobody =>
                \A e \in Slots : ram'[e] = "free" /\ owner'[e] # Nobody => e \in ShotSlots,
             actor' # Nobody => actorObject' \in occupied',
             \A e \in Slots \ touched' : Told(e)'
      PROVE  ObjectInv'
  BY <1>q DEF ObjectInv
\* A step that leaves the objects alone, and empties no seat.
<1>0. ASSUME UNCHANGED <<mode, returnTitle, scene, owner, spawner, ram, actor, actorObject,
                         occupied, touched>>,
             \A s \in Seats : bosses[s].phase # "EMPTY" => bosses'[s].phase # "EMPTY"
      PROVE  ObjectInv'
  <2>1. \A e \in Slots : Told(e) => Told(e)'
    BY <1>0, <1>t DEF Told, Phase, Owners
  <2>2. QED
    BY <1>0, <2>1 DEF ObjectInv, Fresh
<1>1. CASE PcStep \/ DrawWasted
  BY <1>0, <1>1 DEF PcStep, FrameIdle, FrameSeats, NothingToClean, NothingToSpawn, RunGuest,
        FreezeGuest, SchedulerReturns, AfterFrameIdle, DrawWasted, rushVars, seatVars,
        callVars, pendingVars, guestVars
<1>2. CASE Load \/ TitleReached \/ HardwareReset
  BY <1>2 DEF Load, TitleReached, HardwareReset, Reset, guestVars, ObjectInv, ModeInv
<1>3. CASE MainMenu
  BY <1>3 DEF MainMenu, ModeInv, ObjectInv, guestVars
<1>4. CASE Prepare
  BY <1>4 DEF Prepare, ObjectInv, Fresh, seatVars, callVars, pendingVars
<1>5. CASE StageStart
  BY <1>5 DEF StageStart, ObjectInv, Fresh, seatVars, callVars, pendingVars
<1>6. CASE LogoDone
  BY <1>6 DEF LogoDone, ObjectInv, ModeInv
<1>7. CASE ArenaTrigger
  BY <1>0, <1>7 DEF ArenaTrigger, seatVars, callVars, pendingVars, guestVars
<1>8. CASE MusicUploaded
  <2>1. Fresh /\ actor = Nobody
    BY <1>8, <1>i DEF MusicUploaded, ModeInv, ObjectInv
  <2>2. mode' = "PLAYING" /\ UNCHANGED <<owner, spawner, actor>>
    BY <1>8 DEF MusicUploaded, callVars, pendingVars
  <2>3. \A e \in Slots : Told(e)'
    BY <2>1, <2>2 DEF Told, Fresh
  <2>4. QED
    BY <1>q, <2>1, <2>2, <2>3 DEF Fresh
<1>9. CASE CleanupTick
  <2>1. \A s \in Seats : bosses'[s].phase = bosses[s].phase
    BY <1>9, <1>t DEF CleanupTick, Boss
  <2>2. QED
    BY <1>0, <1>9, <2>1 DEF CleanupTick, rushVars, callVars, pendingVars, guestVars
<1>10. CASE CleanupBoss
  <2> DEFINE x == First(FreeItems)
             gone == {e \in Slots : owner[e] = seat}
  <2>1. mode = "PLAYING" /\ Phase(seat) = "DYING"
    BY <1>10 DEF CleanupBoss, CleanupDue, ModeInv
  <2>2. x \in Slots /\ Erased[x] = "free"
    <3>1. FreeItems \in SUBSET Slots /\ FreeItems # {}
      BY <1>10 DEF CleanupBoss, FreeItems, Slots
    <3>2. x \in FreeItems
      BY <3>1, FirstIsMember
    <3>3. QED
      BY <3>1, <3>2 DEF FreeItems
  <2>3. /\ ram' = [Erased EXCEPT ![x] = "other"]
        /\ spawner' = [e \in Slots |-> IF Erased[e] = "free" THEN Nobody ELSE spawner[e]]
        /\ touched' = IF actor # Nobody THEN touched \cup (gone \cup {x})
                                        ELSE touched \ (gone \cup {x})
        /\ UNCHANGED <<mode, returnTitle, scene, actor, actorObject, occupied>>
    BY <1>10 DEF CleanupBoss, HostTouches, rushVars, pendingVars
  <2>4. \/ /\ actor # seat /\ bosses' = [bosses EXCEPT ![seat] = EmptyBoss]
           /\ owner' = [Disowned EXCEPT ![x] = Nobody]
        \/ actor # Nobody /\ UNCHANGED <<bosses, owner>>
    <3>1. CASE ValidCall(actor, [bosses EXCEPT ![seat] = EmptyBoss])
      <4>1. actor # seat
        BY <3>1, <1>t, <1>n DEF ValidCall, EmptyBoss
      <4>2. QED
        BY <1>10, <3>1, <4>1 DEF CleanupBoss
    <3>2. CASE ~ValidCall(actor, [bosses EXCEPT ![seat] = EmptyBoss])
      <4>1. actor # Nobody
        BY <3>2 DEF ValidCall
      <4>2. QED
        BY <1>10, <3>2, <4>1 DEF CleanupBoss
    <3>3. QED
      BY <3>1, <3>2
  <2> HIDE DEF x
  <2>5. \A s \in Seats \ {seat} : bosses'[s] = bosses[s]
    BY <2>4, <1>t
  <2>6. ASSUME NEW e \in Slots
        PROVE  /\ ram'[e] = "free" => spawner'[e] = Nobody
               /\ actor' = Nobody /\ ram'[e] = "free" /\ owner'[e] # Nobody => e \in ShotSlots
    <3>1. ram'[e] = "free" => e # x /\ Erased[e] = "free"
      BY <2>2, <2>3 DEF Erased
    <3>2. actor = Nobody => owner'[e] = IF e = x THEN Nobody ELSE Disowned[e]
      BY <2>2, <2>4 DEF Disowned
    <3>3. actor = Nobody /\ ram[e] = "free" /\ owner[e] # Nobody => e \in ShotSlots
      BY <2>1 DEF ObjectInv
    <3>4. QED
      BY <2>3, <3>1, <3>2, <3>3 DEF Erased, Disowned
  <2>7. ASSUME NEW e \in Slots \ touched'
        PROVE  Told(e)'
    <3>1. CASE e \notin gone /\ e # x
      <4>1. e \notin touched
        BY <2>3, <3>1
      <4>2. Told(e) /\ (ram[e] = "free" => spawner[e] = Nobody)
        BY <2>1, <4>1, <1>r, <1>f
      <4>3. ram'[e] = ram[e] /\ owner'[e] = owner[e] /\ spawner'[e] = spawner[e]
        BY <2>2, <2>3, <2>4, <3>1, <4>2 DEF Erased, Disowned
      <4>4. spawner[e] # Nobody => bosses'[spawner[e]] = bosses[spawner[e]]
        <5>1. CASE UNCHANGED bosses
          BY <5>1
        <5>2. CASE actor # seat
          <6>1. spawner[e] # Nobody => spawner[e] \in Seats \ {seat}
            BY <3>1, <4>2, <5>2, <1>t DEF Told, Owners
          <6>2. QED
            BY <2>5, <6>1
        <5>3. QED
          BY <2>4, <5>1, <5>2
      <4>5. QED
        BY <2>3, <4>2, <4>3, <4>4 DEF Told, Phase
    <3>2. CASE e \in gone \/ e = x
      <4>1. actor = Nobody /\ actor' = Nobody
        BY <2>3, <3>2
      <4>2. spawner'[e] = Nobody /\ (ram'[e] # "free" => owner'[e] = Nobody)
        <5>1. Erased[e] = "free"
          BY <2>2, <3>2 DEF Erased
        <5>2. e # x => ram'[e] = "free"
          BY <2>3, <5>1 DEF Erased
        <5>3. e = x => owner'[e] = Nobody
          BY <2>4, <4>1 DEF Disowned
        <5>4. QED
          BY <2>3, <5>1, <5>2, <5>3
      <4>3. QED
        BY <4>1, <4>2 DEF Told
    <3>3. QED
      BY <3>1, <3>2
  <2>8. actor' # Nobody => actorObject' \in occupied'
    BY <2>1, <2>3 DEF ObjectInv
  <2>9. mode' = "PLAYING"
    BY <2>1, <2>3
  <2>10. QED
    BY <1>q, <2>6, <2>7, <2>8, <2>9
<1>11. CASE CleanupRetry
  <2> DEFINE gone == {e \in Slots : owner[e] = seat}
  <2>1. mode = "PLAYING"
    BY <1>11 DEF CleanupRetry, CleanupDue, ModeInv
  <2>2. /\ bosses' = [bosses EXCEPT ![seat].ticks = CleanupTicks]
        /\ owner' = Disowned /\ ram' = Erased
        /\ spawner' = [e \in Slots |-> IF Erased[e] = "free" THEN Nobody ELSE spawner[e]]
        /\ touched' = IF actor # Nobody THEN touched \cup gone ELSE touched \ gone
        /\ UNCHANGED <<mode, returnTitle, scene, actor, actorObject, occupied>>
    BY <1>11 DEF CleanupRetry, HostTouches, rushVars, pendingVars
  <2>3. \A s \in Seats : bosses'[s].phase = bosses[s].phase
    BY <2>2, <1>t DEF Boss
  <2>4. ASSUME NEW e \in Slots
        PROVE  /\ ram'[e] = "free" => spawner'[e] = Nobody
               /\ actor' = Nobody /\ ram'[e] = "free" /\ owner'[e] # Nobody => e \in ShotSlots
    <3>1. actor = Nobody /\ ram[e] = "free" /\ owner[e] # Nobody => e \in ShotSlots
      BY <2>1 DEF ObjectInv
    <3>2. QED
      BY <2>2, <3>1 DEF Erased, Disowned
  <2>5. ASSUME NEW e \in Slots \ touched'
        PROVE  Told(e)'
    <3>1. CASE e \notin gone
      <4>1. Told(e) /\ (ram[e] = "free" => spawner[e] = Nobody)
        BY <2>1, <2>2, <3>1, <1>r, <1>f
      <4>2. ram'[e] = ram[e] /\ owner'[e] = owner[e] /\ spawner'[e] = spawner[e]
        BY <2>2, <3>1, <4>1 DEF Erased, Disowned
      <4>3. QED
        BY <2>2, <2>3, <4>1, <4>2, <1>t DEF Told, Phase, Owners
    <3>2. CASE e \in gone
      <4>1. actor = Nobody /\ actor' = Nobody /\ ram'[e] = "free" /\ spawner'[e] = Nobody
        BY <2>2, <3>2 DEF Erased
      <4>2. QED
        BY <4>1 DEF Told
    <3>3. QED
      BY <3>1, <3>2
  <2>6. actor' # Nobody => actorObject' \in occupied'
    BY <2>1, <2>2 DEF ObjectInv
  <2>7. mode' = "PLAYING"
    BY <2>1, <2>2
  <2>8. QED
    BY <1>q, <2>4, <2>5, <2>6, <2>7
<1>12. CASE SpawnBoss
  <2> DEFINE object == First(Free(EnemySlots))
  <2>1. object \in Slots
    <3>1. Free(EnemySlots) \in SUBSET Slots /\ Free(EnemySlots) # {}
      BY <1>12 DEF SpawnBoss, Free, Slots
    <3>2. QED
      BY <3>1, FirstIsMember
  <2>2. mode = "PLAYING"
    BY <1>12 DEF SpawnBoss, ModeInv
  <2>3. /\ owner' = [owner EXCEPT ![object] = seat]
        /\ ram' = [ram EXCEPT ![object] = "intro"]
        /\ spawner' = [spawner EXCEPT ![object] = seat]
        /\ touched' = IF actor # Nobody THEN touched \cup {object} ELSE touched \ {object}
        /\ UNCHANGED <<mode, returnTitle, scene, actor, actorObject, occupied>>
    BY <1>12 DEF SpawnBoss, HostTouches, rushVars, pendingVars
  <2> HIDE DEF object
  <2>4. bosses'[seat].phase = "ENTERING" /\ \A s \in Seats : s # seat => bosses'[s] = bosses[s]
    BY <1>12, <1>t DEF SpawnBoss
  <2>5. \A e \in Slots \ {object} :
            ram'[e] = ram[e] /\ owner'[e] = owner[e] /\ spawner'[e] = spawner[e]
    BY <2>3, <1>t
  <2>6. ram'[object] = "intro" /\ owner'[object] = seat /\ spawner'[object] = seat
    BY <2>1, <2>3, <1>t
  <2>7. ASSUME NEW e \in Slots \ touched'
        PROVE  Told(e)'
    <3>1. CASE e = object
      <4>1. actor = Nobody /\ actor' = Nobody
        BY <2>3, <3>1
      <4>2. QED
        BY <2>4, <2>6, <3>1, <4>1 DEF Told, Phase
    <3>2. CASE e # object
      <4>1. Told(e)
        BY <2>2, <2>3, <3>2, <1>r
      <4>2. spawner[e] # Nobody => bosses'[spawner[e]].phase # "EMPTY"
        BY <2>4, <4>1, <1>t DEF Told, Phase, Owners
      <4>3. QED
        BY <2>3, <2>5, <3>2, <4>1, <4>2 DEF Told, Phase
    <3>3. QED
      BY <3>1, <3>2
  <2>8. \A e \in Slots : ram'[e] = "free" => spawner'[e] = Nobody
    BY <2>2, <2>5, <2>6, <1>f
  <2>9. actor' = Nobody =>
            \A e \in Slots : ram'[e] = "free" /\ owner'[e] # Nobody => e \in ShotSlots
    BY <2>2, <2>3, <2>5, <2>6 DEF ObjectInv
  <2>10. mode' = "PLAYING" /\ (actor' # Nobody => actorObject' \in occupied')
    BY <2>2, <2>3 DEF ObjectInv
  <2>11. QED
    BY <1>q, <2>7, <2>8, <2>9, <2>10
<1>13. ASSUME NEW d \in Slots, CallEnter(d)
       PROVE  ObjectInv'
  <2>1. actor = Nobody /\ owner[d] \in Seats /\ mode = "PLAYING"
    BY <1>13, <1>t DEF CallEnter, InPlay, Owners
  <2>2. ValidCall(owner[d], bosses)
    BY <2>1 DEF ValidCall, SeatInv, OwnedHasBoss, Phase
  <2>3. /\ actor' = owner[d] /\ actorObject' = d
        /\ occupied' = {e \in Slots : ram[e] # "free"} /\ ram[d] # "free"
        /\ UNCHANGED <<mode, returnTitle, scene, owner, spawner, ram, bosses, touched>>
    BY <1>13, <2>2 DEF CallEnter, rushVars, seatVars
  <2>4. \A e \in Slots : Told(e) => Told(e)'
    BY <2>1, <2>3, <1>n DEF Told, Phase
  <2>5. QED
    BY <1>q, <1>f, <1>r, <2>1, <2>3, <2>4, <1>n
<1>14. CASE CallReturn
  <2>1. \A s \in Seats : bosses'[s].phase = bosses[s].phase
    BY <1>14, <1>t DEF CallReturn, Boss, Owners
  <2>2. /\ actor # Nobody /\ actor' = Nobody /\ mode = "PLAYING"
        /\ UNCHANGED <<mode, returnTitle, scene, spawner, ram>>
        /\ touched' = touched \ {d \in Slots : ram[d] = "free"}
        /\ \A d \in Slots : owner'[d] = IF ram[d] = "free" THEN Nobody
                                ELSE IF d \notin occupied THEN actor ELSE owner[d]
    BY <1>14 DEF CallReturn, InPlay, rushVars
  <2>3. ASSUME NEW e \in Slots \ touched'
        PROVE  Told(e)'
    <3>1. CASE ram[e] = "free"
      BY <2>2, <3>1, <1>f DEF Told
    <3>2. CASE ram[e] # "free"
      <4>1. Told(e)
        BY <2>2, <3>2, <1>r
      <4>2. owner'[e] = spawner[e]
        BY <2>2, <3>2, <4>1 DEF Told
      <4>3. spawner[e] # Nobody => bosses'[spawner[e]].phase # "EMPTY"
        BY <2>1, <4>1, <1>t DEF Told, Phase, Owners
      <4>4. QED
        BY <2>2, <4>2, <4>3 DEF Told, Phase
    <3>3. QED
      BY <3>1, <3>2
  <2>4. QED
    BY <1>q, <1>f, <2>2, <2>3
<1>15. ASSUME NEW d \in Slots, CallSpawns(d)
       PROVE  ObjectInv'
  <2>1. /\ mode = "PLAYING" /\ actor \in Seats /\ actor # Nobody /\ actorObject \in Slots
        /\ ram[d] = "free" /\ ram' = [ram EXCEPT ![d] = "other"]
        /\ spawner' = [spawner EXCEPT ![d] = actor]
        /\ UNCHANGED <<mode, returnTitle, scene, bosses, owner, actor, actorObject, occupied,
                       touched>>
    BY <1>15, <1>t, <1>n
    DEF CallSpawns, InCall, InPlay, Owners, rushVars, seatVars, callVars, pendingVars
  <2>2. bosses[actor].phase # "EMPTY"
    BY <2>1 DEF SeatInv, ValidCall
  <2>3. ASSUME NEW e \in Slots
        PROVE  /\ ram'[e] = "free" => spawner'[e] = Nobody
               /\ Told(e) => Told(e)'
    <3>1. CASE e = d
      <4>1. ram'[e] = "other" /\ spawner'[e] = actor
        BY <2>1, <3>1, <1>t
      <4>2. Told(e) => (e \in occupied => owner[e] = actor)
        BY <2>1, <3>1 DEF Told
      <4>3. QED
        BY <2>1, <2>2, <4>1, <4>2 DEF Told, Phase
    <3>2. CASE e # d
      <4>1. ram'[e] = ram[e] /\ spawner'[e] = spawner[e]
        BY <2>1, <3>2
      <4>2. QED
        BY <2>1, <4>1, <1>f DEF Told, Phase
    <3>3. QED
      BY <3>1, <3>2
  <2>4. actor' # Nobody => actorObject' \in occupied'
    BY <2>1 DEF ObjectInv
  <2>5. QED
    BY <1>q, <1>r, <2>1, <2>3, <2>4
<1>16. CASE CallEndsObject
  <2>1. /\ mode = "PLAYING" /\ actor # Nobody /\ actorObject \in Slots
        /\ ram' = [ram EXCEPT ![actorObject] = "free"]
        /\ spawner' = [spawner EXCEPT ![actorObject] = Nobody]
        /\ UNCHANGED <<mode, returnTitle, scene, bosses, owner, actor, actorObject, occupied,
                       touched>>
    BY <1>16, <1>t
    DEF CallEndsObject, InCall, InPlay, rushVars, seatVars, callVars, pendingVars
  <2>2. \A e \in Slots : e # actorObject => ram'[e] = ram[e] /\ spawner'[e] = spawner[e]
    BY <2>1
  <2>3. ram'[actorObject] = "free" /\ spawner'[actorObject] = Nobody
    BY <2>1, <1>t
  <2>4. \A e \in Slots : Told(e) => Told(e)'
    BY <2>1, <2>2, <2>3 DEF Told, Phase
  <2>5. \A e \in Slots : ram'[e] = "free" => spawner'[e] = Nobody
    BY <2>1, <2>2, <2>3, <1>f
  <2>6. actor' # Nobody => actorObject' \in occupied'
    BY <2>1 DEF ObjectInv
  <2>7. QED
    BY <1>q, <1>r, <2>1, <2>4, <2>5, <2>6
<1>17. CASE CallWritesGlobals
  BY <1>0, <1>17 DEF CallWritesGlobals, rushVars, seatVars, callVars, pendingVars
<1>18. CASE BodyAdvances
  <2>1. \A e \in Slots : ram'[e] = "free" <=> ram[e] = "free"
    BY <1>18, <1>t DEF BodyAdvances, InCall
  <2>2. /\ mode = "PLAYING" /\ actor # Nobody
        /\ UNCHANGED <<mode, returnTitle, scene, bosses, owner, spawner, actor, actorObject,
                       occupied, touched>>
    BY <1>18 DEF BodyAdvances, InCall, InPlay, rushVars, seatVars, callVars, pendingVars
  <2>3. \A e \in Slots : Told(e) => Told(e)'
    BY <2>1, <2>2 DEF Told, Phase
  <2>4. actor' # Nobody => actorObject' \in occupied'
    BY <2>2 DEF ObjectInv
  <2>5. QED
    BY <1>q, <1>f, <1>r, <2>1, <2>2, <2>3, <2>4
<1>19. CASE DeathEntry
  <2>1. PICK s \in Seats : s = owner[actorObject]
    BY <1>19, <1>t DEF DeathEntry, InCall, InPlay, Owners
  <2>2. bosses' = [bosses EXCEPT ![s].phase = "DYING", ![s].ticks = 0]
    BY <1>19, <2>1 DEF DeathEntry
  <2>3. \A r \in Seats : bosses[r].phase # "EMPTY" => bosses'[r].phase # "EMPTY"
    BY <2>2, <1>t DEF Boss
  <2>4. QED
    BY <1>0, <1>19, <2>3 DEF DeathEntry, rushVars, callVars, pendingVars, guestVars
\* What the world and the players' weapons do to a slot between calls.
<1>w. ASSUME NEW d \in Slots, mode = "PLAYING", actor = Nobody,
             ram' = [ram EXCEPT ![d] = "free"] \/ ram' = [ram EXCEPT ![d] = "other"],
             spawner' = [spawner EXCEPT ![d] = Nobody],
             ram'[d] = "free" => d \in ShotSlots \/ owner[d] = Nobody,
             ram'[d] # "free" => owner[d] = Nobody,
             UNCHANGED <<mode, bosses, owner, actor, touched>>
      PROVE  ObjectInv'
  <2>1. \A e \in Slots : e # d => ram'[e] = ram[e] /\ spawner'[e] = spawner[e]
    <3>1. CASE ram' = [ram EXCEPT ![d] = "free"]
      BY <3>1, <1>w, <1>t
    <3>2. CASE ram' = [ram EXCEPT ![d] = "other"]
      BY <3>2, <1>w, <1>t
    <3>3. QED
      BY <3>1, <3>2, <1>w
  <2>2. spawner'[d] = Nobody
    BY <1>w, <1>t
  <2>3. \A e \in Slots : Told(e) => Told(e)'
    BY <1>w, <2>1, <2>2 DEF Told, Phase
  <2>4. \A e \in Slots : ram'[e] = "free" /\ owner'[e] # Nobody => e \in ShotSlots
    BY <1>w, <2>1 DEF ObjectInv
  <2>5. \A e \in Slots : ram'[e] = "free" => spawner'[e] = Nobody
    BY <1>w, <1>f, <2>1, <2>2
  <2>6. QED
    BY <1>q, <1>r, <1>w, <2>3, <2>4, <2>5
<1>20. ASSUME NEW d \in Slots, WorldSpawns(d)
       PROVE  ObjectInv'
  <2>1. /\ mode = "PLAYING" /\ actor = Nobody
        /\ ram[d] = "free" /\ d \notin ShotSlots
        /\ ram' = [ram EXCEPT ![d] = "other"]
        /\ spawner' = [spawner EXCEPT ![d] = Nobody]
        /\ UNCHANGED <<mode, bosses, owner, actor, touched>>
    BY <1>20, SlotsAssumption
    DEF WorldSpawns, BetweenCalls, InPlay, rushVars, seatVars, callVars, pendingVars
  <2>2. owner[d] = Nobody
    BY <2>1 DEF ObjectInv
  <2>3. QED
    BY <1>w, <2>1, <2>2
<1>21. ASSUME NEW d \in Slots, WorldEnds(d)
       PROVE  ObjectInv'
  <2>1. /\ mode = "PLAYING" /\ actor = Nobody /\ owner[d] = Nobody
        /\ ram' = [ram EXCEPT ![d] = "free"]
        /\ spawner' = [spawner EXCEPT ![d] = Nobody]
        /\ UNCHANGED <<mode, bosses, owner, actor, touched>>
    BY <1>21 DEF WorldEnds, BetweenCalls, InPlay, rushVars, seatVars, callVars, pendingVars
  <2>2. QED
    BY <1>w, <2>1
<1>22. ASSUME NEW d \in Slots, PlayerShotClears(d)
       PROVE  ObjectInv'
  <2>1. /\ mode = "PLAYING" /\ actor = Nobody /\ d \in ShotSlots
        /\ ram' = [ram EXCEPT ![d] = "free"]
        /\ spawner' = [spawner EXCEPT ![d] = Nobody]
        /\ UNCHANGED <<mode, bosses, owner, actor, touched>>
    BY <1>22
    DEF PlayerShotClears, BetweenCalls, InPlay, rushVars, seatVars, callVars, pendingVars
  <2>2. ram'[d] = "free"
    BY <2>1, <1>t
  <2>3. QED
    BY <1>w, <2>1, <2>2
<1>23. ASSUME NEW p \in Players, HitPlayer(p) \/ DeathAnimationEnds(p)
       PROVE  ObjectInv'
  BY <1>0, <1>23 DEF HitPlayer, DeathAnimationEnds, rushVars, seatVars, callVars, pendingVars
<1>24. CASE AfterFrame
  <2>1. \A s \in Seats : bosses[s].phase # "EMPTY" => bosses'[s].phase # "EMPTY"
    BY <1>24, AfterFrameSeats DEF TypeInv, Observed, Phase
  <2>2. CASE mode' = "FINISHED"
    BY <2>2 DEF ObjectInv
  <2>3. CASE mode' # "FINISHED"
    <3>1. UNCHANGED <<mode, returnTitle, scene, owner, spawner, ram, actor, actorObject,
                      occupied, touched>>
      BY <1>24, <2>3 DEF AfterFrame
    <3>2. QED
      BY <1>0, <2>1, <3>1
  <2>4. QED
    BY <2>2, <2>3
<1>25. CASE UNCHANGED vars
  BY <1>0, <1>25 DEF vars, rushVars, seatVars, callVars, pendingVars, guestVars
<1>26. QED
  BY <1>1, <1>2, <1>3, <1>4, <1>5, <1>6, <1>7, <1>8, <1>9, <1>10, <1>11, <1>12, <1>13,
     <1>14, <1>15, <1>16, <1>17, <1>18, <1>19, <1>20, <1>21, <1>22, <1>23, <1>24, <1>25
  DEF Next, FrameStep, GuestStep, PcStep

LEMMA ObjectInvariant == Spec => []ObjectInv
<1>1. Init => ObjectInv
  BY DEF Init, ObjectInv
<1>2. TypeInv /\ SeatInv /\ SeatInv' /\ ModeInv /\ ObjectInv /\ [Next]_vars => ObjectInv'
  BY ObjectStep
<1>3. QED
  BY <1>1, <1>2, TypeInvariant, SeatInvariant, ModeInvariant, PTL DEF Spec

\* Between calls the host credits every live object to the seat whose call really
\* allocated it, whatever the guest spawned, ended and replaced in its calls,
\* however many frames a call was cut into and whatever the players' weapons
\* cleared; and no object outlives its boss: a cleanup erases all that his calls
\* made.  Only a slot the host wrote behind a pending call may be miscredited,
\* until it is free at a return or the host writes it again.
THEOREM OwnershipFaithfulAlways == Spec => []OwnershipFaithful
<1>1. ObjectInv => OwnershipFaithful
  BY DEF ObjectInv, Told, OwnershipFaithful, NoOrphans
<1>2. QED
  BY <1>1, ObjectInvariant, PTL

--------------------------------------------------------------------------------
\* The end of a run.
LEMMA TradeStep ==
    TypeInv /\ SeatInv /\ ModeInv /\ TradeKillsCount /\ [Next]_vars => TradeKillsCount'
<1> SUFFICES ASSUME TypeInv, SeatInv, ModeInv, TradeKillsCount, [Next]_vars
             PROVE  TradeKillsCount'
  OBVIOUS
<1>1. CASE PcStep
  BY <1>1 DEF PcStep, FrameIdle, FrameSeats, NothingToClean, NothingToSpawn, RunGuest,
        FreezeGuest, SchedulerReturns, AfterFrameIdle, rushVars, seatVars, guestVars,
        TradeKillsCount, Standing, Phase
<1>2. CASE Load \/ MainMenu \/ Prepare \/ TitleReached \/ HardwareReset \/ MusicUploaded
  BY <1>2 DEF Load, MainMenu, Prepare, TitleReached, HardwareReset, MusicUploaded,
              TradeKillsCount
<1>3. CASE CleanupTick \/ CleanupBoss \/ CleanupRetry \/ DrawWasted \/ SpawnBoss
  BY <1>3 DEF CleanupTick, CleanupBoss, CleanupRetry, CleanupDue, DrawWasted, SpawnBoss,
              ModeInv, rushVars, TradeKillsCount
<1>4. CASE StageStart \/ ArenaTrigger
  BY <1>4 DEF StageStart, ArenaTrigger, TradeKillsCount
<1>5. CASE LogoDone
  BY <1>5 DEF LogoDone, ModeInv, TradeKillsCount
<1>6. CASE CallReturn \/ CallEndsObject \/ CallWritesGlobals \/ BodyAdvances \/ DeathEntry
  BY <1>6 DEF CallReturn, CallEndsObject, CallWritesGlobals, BodyAdvances, DeathEntry,
              InCall, InPlay, rushVars, TradeKillsCount
<1>7. ASSUME NEW d \in Slots,
             CallEnter(d) \/ CallSpawns(d) \/ WorldSpawns(d) \/ WorldEnds(d)
                \/ PlayerShotClears(d)
      PROVE  TradeKillsCount'
  BY <1>7 DEF CallEnter, CallSpawns, WorldSpawns, WorldEnds, PlayerShotClears, InCall,
              BetweenCalls, InPlay, rushVars, TradeKillsCount
<1>8. ASSUME NEW p \in Players, HitPlayer(p) \/ DeathAnimationEnds(p)
      PROVE  TradeKillsCount'
  BY <1>8 DEF HitPlayer, DeathAnimationEnds, InCall, BetweenCalls, InPlay, rushVars,
              TradeKillsCount
<1>9. CASE AfterFrame
  <2>1. PICK native \in [Seats -> Natives] :
          /\ \A s \in Seats : native[s] \in Reads(s)
          /\ \A s \in Seats : bosses'[s].object = bosses[s].object
          /\ \A s \in Seats : bosses'[s].phase = Observed(s, native[s])
    BY <1>9, AfterFrameSeats DEF TypeInv
  <2>2. UNCHANGED ram
    BY <1>9 DEF AfterFrame
  <2>3. ASSUME NEW s \in Seats, bosses'[s].phase \in {"ENTERING", "FIGHTING"}
        PROVE  ram[bosses[s].object] # "death"
    <3>1. Phase(s) \in {"ENTERING", "FIGHTING"}
      BY <2>1, <2>3 DEF Observed
    <3>2. bosses[s].object \in Slots
      BY <3>1 DEF SeatInv, Slots
    <3>3. native[s] # "death"
      BY <2>1, <2>3, <3>1 DEF Observed
    <3>4. QED
      BY <2>1, <3>2, <3>3 DEF Reads, Natives
  <2>4. QED
    BY <2>1, <2>2, <2>3 DEF TradeKillsCount, Standing, Phase
<1>10. CASE UNCHANGED vars
  BY <1>10 DEF vars, rushVars, seatVars, guestVars, TradeKillsCount, Standing, Phase
<1>11. QED
  BY <1>1, <1>2, <1>3, <1>4, <1>5, <1>6, <1>7, <1>8, <1>9, <1>10
  DEF Next, FrameStep, GuestStep, PcStep

\* A kill traded against the last player's death still counts.
THEOREM TradeKillsCountAlways == Spec => []TradeKillsCount
<1>1. Init => TradeKillsCount
  BY DEF Init, TradeKillsCount
<1>2. QED
  BY <1>1, TradeStep, TypeInvariant, SeatInvariant, ModeInvariant, PTL DEF Spec

\* A boss leaves its seat, during a run, only through the cleanup that follows
\* its defeat.
SeatFreed ==
    \A s \in Seats :
        mode = "PLAYING" /\ mode' \in {"PLAYING", "FINISHED"} /\ Phase(s) # "EMPTY" =>
            \/ bosses'[s].id = bosses[s].id
            \/ Phase(s) = "DYING" /\ bosses'[s].phase = "EMPTY"

LEMMA SeatFreedStep == TypeInv /\ [Next]_vars => [SeatFreed]_vars
<1> SUFFICES ASSUME TypeInv, [Next]_vars
             PROVE  SeatFreed
  OBVIOUS
<1>t. bosses \in [Seats -> Boss] /\ seat \in Seats /\ owner \in [Slots -> Owners]
      /\ actor \in Owners /\ (actor # Nobody => actorObject \in Slots)
  BY DEF TypeInv, TypeOK
<1>0. ASSUME \A s \in Seats : bosses'[s].id = bosses[s].id
      PROVE  SeatFreed
  BY <1>0 DEF SeatFreed
<1>1. CASE UNCHANGED bosses
  BY <1>0, <1>1
<1>2. CASE CleanupTick \/ CleanupRetry
  BY <1>0, <1>2, <1>t DEF CleanupTick, CleanupRetry, Boss
<1>3. CASE CleanupBoss
  <2>1. bosses' = bosses \/ bosses' = [bosses EXCEPT ![seat] = EmptyBoss]
    BY <1>3 DEF CleanupBoss
  <2>2. Phase(seat) = "DYING"
    BY <1>3 DEF CleanupBoss, CleanupDue
  <2>3. QED
    BY <2>1, <2>2, <1>t DEF SeatFreed, EmptyBoss
<1>4. CASE SpawnBoss
  <2>1. Phase(seat) = "EMPTY" /\ \A s \in Seats : s # seat => bosses'[s] = bosses[s]
    BY <1>4, <1>t DEF SpawnBoss
  <2>2. QED
    BY <2>1, <1>t DEF SeatFreed
<1>5. CASE CallReturn
  BY <1>0, <1>5, <1>t DEF CallReturn, Boss, Owners
<1>6. CASE DeathEntry
  <2>1. PICK s \in Seats : s = owner[actorObject]
    BY <1>6, <1>t DEF DeathEntry, InCall, InPlay, Owners
  <2>2. bosses' = [bosses EXCEPT ![s].phase = "DYING", ![s].ticks = 0]
    BY <1>6, <2>1 DEF DeathEntry
  <2>3. QED
    BY <1>0, <2>2, <1>t DEF Boss
<1>7. CASE AfterFrame
  BY <1>0, <1>7, AfterFrameSeats DEF TypeInv
<1>8. CASE mode' \notin {"PLAYING", "FINISHED"} \/ mode # "PLAYING"
  BY <1>8 DEF SeatFreed
<1>9. ASSUME NEW d \in Slots, CallEnter(d)
      PROVE  SeatFreed
  BY <1>1, <1>9 DEF CallEnter, seatVars
<1>10. QED
  BY <1>1, <1>2, <1>3, <1>4, <1>5, <1>6, <1>7, <1>8, <1>9, SeatSteps

THEOREM OnlyDefeatFreesSeats == Spec => OnlyDefeatFrees
  BY SeatFreedStep, TypeInvariant, PTL DEF Spec, OnlyDefeatFrees, SeatFreed
--------------------------------------------------------------------------------
\* The encounter implements the abstract queue.  A seat's id is NoBoss exactly
\* when the seat is empty, so the bosses on stage are those of the mapping.
LEMMA SeatsOnStage == Q!Seats = Seats
  BY DEF Q!Seats, Seats

LEMMA PresentOnStage == TypeInv /\ SeatInv => Q!Present = Present
<1> SUFFICES ASSUME TypeInv, SeatInv
             PROVE  Q!Present = Present
  OBVIOUS
<1>1. \A s \in Seats : bosses[s].id # NoBoss <=> Phase(s) # "EMPTY"
  BY DEF SeatInv
<1>2. Q!Present = {bosses[s].id : s \in Seats} \ {NoBoss}
  BY SeatsOnStage DEF Q!Present
<1>3. QED
  BY <1>1, <1>2 DEF Present

LEMMA ReadyOnStage == \A q, present : Q!Ready(q, present) = Ready(q, present)
  BY DEF Q!Ready, Ready

LEMMA TakeOnStage == \A q, present : Q!Take(q, present) = Take(q, present)
<1>1. \A q, k : Q!Without(q, k) = Without(q, k)
  BY DEF Q!Without, Without
<1>2. QED
  BY <1>1, ReadyOnStage DEF Q!Take, Take

LEMMA SizeOnStage == \A S : Q!Cardinality(S) = Cardinality(S)
  BY DEF Q!Cardinality, Cardinality

LEMMA RoundsOnStage == \A q : Q!Rounds(q) = Rounds(q)
  BY SizeOnStage DEF Q!Rounds, Rounds, Q!Queued, Queued

LEMMA NextBossOnStage == \A q, present : Q!NextBoss(q, present) = NextBoss(q, present)
  BY ReadyOnStage, TakeOnStage, RoundsOnStage DEF Q!NextBoss, NextBoss

LEMMA DrawsInit == Init => Q!QInit
  BY SeatsOnStage DEF Init, EmptyBoss, Q!QInit

LEMMA DrawsStep ==
    TypeInv /\ SeatInv /\ [Next]_vars
        => [Q!QNext \/ \E s \in Q!Seats : Q!Discard(s)]_(Q!qvars)
<1> SUFFICES ASSUME TypeInv, SeatInv, [Next]_vars
             PROVE  [Q!QNext \/ \E s \in Q!Seats : Q!Discard(s)]_(Q!qvars)
  OBVIOUS
<1>t. bosses \in [Seats -> Boss] /\ seat \in Seats /\ owner \in [Slots -> Owners]
      /\ actor \in Owners /\ (actor # Nobody => actorObject \in Slots)
  BY DEF TypeInv, TypeOK
<1>s. PICK here \in Seats : here = seat
  BY <1>t
<1>0. ASSUME UNCHANGED queue, \A s \in Seats : bosses'[s].id = bosses[s].id
      PROVE  UNCHANGED Q!qvars
  BY <1>0, SeatsOnStage DEF Q!qvars
<1>1. CASE UNCHANGED <<bosses, queue>>
  BY <1>0, <1>1
<1>2. CASE Reset
  <2>1. Q!Clear
    BY <1>2, SeatsOnStage DEF Reset, EmptyBoss, Q!Clear
  <2>2. QED
    BY <2>1 DEF Q!QNext
<1>3. CASE DrawWasted /\ UNCHANGED bosses
  <2>1. bosses[seat].id = NoBoss
    BY <1>3, <1>t DEF DrawWasted, SeatInv
  <2>2. \E n \in NextBoss(queue, Present) : queue' = n.queue
    BY <1>3 DEF DrawWasted
  <2>3. queue' \in {n.queue : n \in Q!NextBoss(queue, Q!Present)}
    BY <2>2, NextBossOnStage, PresentOnStage
  <2>4. Q!Discard(here)
    BY <1>3, <1>s, <2>1, <2>3, SeatsOnStage DEF Q!Discard
  <2>5. QED
    BY <2>4, <1>s, SeatsOnStage
<1>4. CASE SpawnBoss
  <2>1. bosses[seat].id = NoBoss
    BY <1>4, <1>t DEF SpawnBoss, SeatInv
  <2>2. PICK n \in NextBoss(queue, Present) :
          /\ n.id # NoBoss /\ queue' = n.queue
          /\ bosses'[seat].id = n.id
          /\ \A s \in Seats : s # seat => bosses'[s] = bosses[s]
    BY <1>4, <1>t DEF SpawnBoss
  <2>3. n \in Q!NextBoss(queue, Q!Present)
    BY <2>2, NextBossOnStage, PresentOnStage
  <2>4. [s \in Seats |-> bosses'[s].id] = [[s \in Seats |-> bosses[s].id] EXCEPT ![seat] = n.id]
    BY <2>2, <1>t
  <2>5. Q!Draw(here)
    BY <2>1, <2>2, <2>3, <2>4, <1>s, SeatsOnStage DEF Q!Draw
  <2>6. QED
    BY <2>5, <1>s, SeatsOnStage DEF Q!QNext
<1>5. CASE CleanupBoss
  <2>1. UNCHANGED queue
    BY <1>5 DEF CleanupBoss
  <2>2. CASE UNCHANGED bosses
    BY <1>0, <2>1, <2>2
  <2>3. CASE bosses' = [bosses EXCEPT ![seat] = EmptyBoss]
    <3>1. bosses[seat].id # NoBoss
      BY <1>5, <1>t DEF CleanupBoss, CleanupDue, SeatInv
    <3>2. [s \in Seats |-> bosses'[s].id]
            = [[s \in Seats |-> bosses[s].id] EXCEPT ![seat] = NoBoss]
      BY <2>3, <1>t DEF EmptyBoss
    <3>3. Q!Leave(here)
      BY <2>1, <3>1, <3>2, <1>s, SeatsOnStage DEF Q!Leave
    <3>4. QED
      BY <3>3, <1>s, SeatsOnStage DEF Q!QNext
  <2>4. QED
    BY <1>5, <2>2, <2>3 DEF CleanupBoss
<1>6. CASE CleanupTick \/ CleanupRetry
  BY <1>0, <1>6, <1>t DEF CleanupTick, CleanupRetry, Boss
<1>7. ASSUME NEW d \in Slots, CallEnter(d)
      PROVE  UNCHANGED Q!qvars
  BY <1>1, <1>7 DEF CallEnter, seatVars, Q!qvars
<1>8. CASE CallReturn
  BY <1>0, <1>8, <1>t DEF CallReturn, Boss, Owners
<1>9. CASE DeathEntry
  <2>1. PICK s \in Seats : s = owner[actorObject]
    BY <1>9, <1>t DEF DeathEntry, InCall, InPlay, Owners
  <2>2. bosses' = [bosses EXCEPT ![s].phase = "DYING", ![s].ticks = 0] /\ UNCHANGED queue
    BY <1>9, <2>1 DEF DeathEntry
  <2>3. \A r \in Seats : bosses'[r].id = bosses[r].id
    BY <2>2, <1>t DEF Boss
  <2>4. QED
    BY <1>0, <2>2, <2>3
<1>10. CASE AfterFrame
  <2>1. \A s \in Seats : bosses'[s].id = bosses[s].id
    BY <1>10, AfterFrameSeats DEF TypeInv
  <2>2. QED
    BY <1>0, <1>10, <2>1 DEF AfterFrame
<1>11. QED
  BY <1>1, <1>2, <1>3, <1>4, <1>5, <1>6, <1>7, <1>8, <1>9, <1>10, SeatSteps

\* Every draw of the encounter is a draw of the abstract queue, or a draw whose
\* boss was refused its object: the seats never hold the same boss, and nobody
\* blocks the other seat, because the queue promises it (HostServices_proof).
THEOREM ImplementsQueue == Spec => DrawsAsPromised
<1>1. TypeInv /\ SeatInv /\ [Next]_vars
        => [Q!QNext \/ \E s \in Q!Seats : Q!Discard(s)]_(Q!qvars)
  BY DrawsStep
<1>2. QED
  BY <1>1, DrawsInit, TypeInvariant, SeatInvariant, PTL
  DEF Spec, DrawsAsPromised, Q!QLossySpec
================================================================================

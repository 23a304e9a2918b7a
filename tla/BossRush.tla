-------------------------------- MODULE BossRush --------------------------------
(***************************************************************************)
(* The boss rush encounter: mmx_boss_rush.c (state) and                     *)
(* mmx_boss_rush_runtime.c (hooks and host frame).                          *)
(*                                                                          *)
(* The host calls MmxBossRushFrame before, and MmxBossRushAfterFrame after, *)
(* every run of the guest scheduler.  In between the guest updates its      *)
(* objects one at a time; a pre-opcode hook turns the update of an object   *)
(* that belongs to a boss into a call of that boss: the boss's private      *)
(* scene globals are installed, every object the call allocates becomes the *)
(* boss's, and the world's globals come back when the call returns.  pc     *)
(* orders the host's handlers and the guest's part of a frame; the guest's  *)
(* own steps (allocations, damage, animation) are its possible effects.     *)
(***************************************************************************)
EXTENDS BossDraw

CONSTANTS EnemySlots,    \* object pools of guest RAM, as addresses: the pool
          ShotSlots,     \*   bosses are spawned in, hostile projectiles,
          ItemSlots,     \*   items,
          EffectSlots,   \*   and effects
          NoSlot,        \* the object of an empty seat, of no call
          Players,       \* one player, or two in co-op
          CleanupTicks,  \* frames from a defeat to its cleanup (48)
          CounterMax,    \* UINT32_MAX of the two run counters
          Slow,          \* objects whose updates may outlast a frame
          BodyVanishes,  \* may a boss's body end its own life?
          Borrowers      \* seats whose bosses write the scene globals

Slots == EnemySlots \cup ShotSlots \cup ItemSlots \cup EffectSlots

ASSUME SlotsAssumption ==
    /\ IsFiniteSet(Slots) /\ Slots \subseteq Nat
    /\ EnemySlots \cap ItemSlots = {}
    /\ ShotSlots \cap (ItemSlots \cup EffectSlots) = {}
    /\ NoSlot \notin Slots
ASSUME CountersAssumption ==
    /\ CleanupTicks \in Nat \ {0}
    /\ CounterMax \in Nat
ASSUME PlayersAssumption == Players # {}
ASSUME FlagsAssumption ==
    Slow \subseteq Slots /\ BodyVanishes \in BOOLEAN /\ Borrowers \subseteq Seats

Nobody == 0                          \* no seat: the world outside the bosses
Owners == Seats \cup {Nobody}
Other(s) == 3 - s
Natives == {"intro", "fight", "death"}   \* what $+1 and the HP of a body say

VARIABLES
    \* MmxBossRushState
    mode, loaded, stageStarted, returnTitle,
    bosses,        \* the two seats
    queue,         \* bosses still to be drawn
    generation,    \* bosses assigned in this run
    defeated,      \* bosses defeated in this run
    owner,         \* the seat each object belongs to
    occupied,      \* the objects that were live when the pending call began
    actor,         \* the seat whose call is pending
    actorObject,   \* the object being updated by that call
    saved,         \* the world's globals during a call
    \* guest RAM.  A set of globals is identified by who wrote it last.
    ram,           \* each slot: free, some object, or a boss's body
    globals,       \* the scene globals the guest works with
    players,       \* each player: alive, in its death animation, or past it
    scene,         \* what the guest shows
    \* control
    pc, seat,
    \* history
    spawner,       \* the seat whose call really allocated each live object
    owed,          \* health pickups owed for the defeats of each seat
    touched,       \* slots the host erased or filled while a call was pending,
                   \*   until they are free at a return or written between calls
    crossed        \* seats filled while the other's call was pending, or due to be
                   \*   cleared during their own, until the next boss comes

rushVars  == <<mode, loaded, stageStarted, returnTitle>>
seatVars  == <<bosses, queue, generation, defeated>>
pendingVars == <<occupied, actor, actorObject, saved>>
callVars  == <<pendingVars, touched, crossed>>
guestVars == <<ram, globals, players, scene>>
vars == <<rushVars, seatVars, owner, callVars, guestVars, pc, seat, spawner, owed>>
--------------------------------------------------------------------------------
EmptyBoss == [phase |-> "EMPTY", id |-> NoBoss, object |-> NoSlot,
              ticks |-> 0, globals |-> Nobody]

Phase(s) == bosses[s].phase
\* Mutants: the same code with a plausible slip, for the checks of the
\* properties.  Each stands in front of the definition it replaces.
PresentForgetsDying == {bosses[s].id : s \in {t \in Seats : Phase(t) \in {"ENTERING", "FIGHTING"}}}

Present == {bosses[s].id : s \in {t \in Seats : Phase(t) # "EMPTY"}}
Free(pool) == {d \in pool : ram[d] = "free"}
First(S) == CHOOSE d \in S : \A e \in S : d <= e

\* ++defeated stops at the maximum, ++generation wraps.
Saturate(n) == IF n < CounterMax THEN n + 1 ELSE CounterMax
Wrap(n) == IF n < CounterMax THEN n + 1 ELSE 0

\* The clause of MmxBossRushValidState that relates two parts of the state:
\* MmxBossRushSetState drops a write that leaves a call pending for no boss.
ValidCall(a, bs) == a # Nobody => bs[a].phase # "EMPTY"

\* MmxBossRushReset: every field is zero.
Reset ==
    /\ loaded' = "NOT_LOADED" /\ stageStarted' = FALSE
    /\ bosses' = [s \in Seats |-> EmptyBoss]
    /\ queue' = <<>> /\ generation' = 0 /\ defeated' = 0
    /\ owner' = [d \in Slots |-> Nobody]
    /\ occupied' = {} /\ actor' = Nobody /\ actorObject' = NoSlot /\ saved' = Nobody
    /\ owed' = [s \in Seats |-> 0] /\ touched' = {} /\ crossed' = {}

Init ==
    /\ mode = "OFF" /\ loaded = "NOT_LOADED"
    /\ stageStarted = FALSE /\ returnTitle = FALSE
    /\ bosses = [s \in Seats |-> EmptyBoss]
    /\ queue = <<>> /\ generation = 0 /\ defeated = 0
    /\ owner = [d \in Slots |-> Nobody]
    /\ occupied = {} /\ actor = Nobody /\ actorObject = NoSlot /\ saved = Nobody
    /\ ram = [d \in Slots |-> "free"] /\ globals = Nobody
    /\ players = [p \in Players |-> "alive"] /\ scene = "title"
    /\ pc = "frame" /\ seat = 1
    /\ spawner = [d \in Slots |-> Nobody]
    /\ owed = [s \in Seats |-> 0] /\ touched = {} /\ crossed = {}
--------------------------------------------------------------------------------
\* MmxBossRushFrame: the title row and the results page choose a run (load()).
Load ==
    /\ pc = "frame"
    /\ \/ mode = "OFF" /\ scene = "title"
       \/ mode = "FINISHED"
    /\ Reset /\ mode' = "LOADING" /\ returnTitle' = FALSE
    /\ pc' = "run"
    /\ UNCHANGED <<guestVars, seat, spawner>>

\* The results page: Main Menu.
MainMenu ==
    /\ pc = "frame" /\ mode = "FINISHED"
    /\ mode' = "LOADING" /\ returnTitle' = TRUE
    /\ pc' = "run"
    /\ UNCHANGED <<loaded, stageStarted, seatVars, owner, callVars, guestVars,
                   seat, spawner, owed>>

\* prepare(): the stage is up, the players are whole and walk to the arena.
Prepare ==
    /\ pc = "frame" /\ mode = "LOADING" /\ scene = "stage"
    /\ mode' = "PREPARING" /\ loaded' = "ARENA_LOADED"
    /\ players' = [p \in Players |-> "alive"]
    /\ pc' = "run"
    /\ UNCHANGED <<stageStarted, returnTitle, seatVars, owner, callVars, ram,
                   globals, scene, seat, spawner, owed>>

\* Every other frame that leaves the encounter alone: the title, a stage that
\* is not ready, the walk to the arena, and a menu or camera move in play.
FrameIdle ==
    /\ pc = "frame"
    /\ \/ mode \in {"OFF", "PREPARING", "PLAYING"}
       \/ mode = "LOADING" /\ scene # "stage"
    /\ pc' = "run"
    /\ UNCHANGED <<rushVars, seatVars, owner, callVars, guestVars, seat, spawner, owed>>

\* The encounter's part of MmxBossRushFrame: for each seat in turn, the cleanup
\* of a defeated boss, then the entrance of the next one.
FrameSeats ==
    /\ pc = "frame" /\ mode = "PLAYING"
    /\ pc' = "clean" /\ seat' = 1
    /\ UNCHANGED <<rushVars, seatVars, owner, callVars, guestVars, spawner, owed>>

NextSeat ==
    IF seat = 1 THEN pc' = "clean" /\ seat' = 2 ELSE pc' = "run" /\ seat' = 1
--------------------------------------------------------------------------------
\* Cleanup of one seat.

NothingToClean ==
    /\ pc = "clean" /\ Phase(seat) # "DYING"
    /\ pc' = "spawn"
    /\ UNCHANGED <<rushVars, seatVars, owner, callVars, guestVars, seat, spawner, owed>>

CleanupTickNotStored ==
    /\ pc = "clean" /\ Phase(seat) = "DYING" /\ bosses[seat].ticks + 1 < CleanupTicks
    /\ pc' = "spawn"
    /\ UNCHANGED <<rushVars, seatVars, owner, callVars, guestVars, seat, spawner, owed>>

CleanupTick ==
    /\ pc = "clean" /\ Phase(seat) = "DYING" /\ bosses[seat].ticks + 1 < CleanupTicks
    /\ bosses' = [bosses EXCEPT ![seat].ticks = @ + 1]
    /\ pc' = "spawn"
    /\ UNCHANGED <<rushVars, queue, generation, defeated, owner, callVars, guestVars,
                   seat, spawner, owed>>

CleanupDue ==
    /\ pc = "clean" /\ Phase(seat) = "DYING" /\ bosses[seat].ticks + 1 >= CleanupTicks

\* RAM once every object of the seat is erased, and the item slots then free.
Erased == [d \in Slots |-> IF owner[d] = seat THEN "free" ELSE ram[d]]
FreeItems == {d \in ItemSlots : Erased[d] = "free"}
Disowned == [d \in Slots |-> IF owner[d] = seat THEN Nobody ELSE owner[d]]

\* The host erases or fills slots: behind the back of a pending call, which
\* credits objects by what was live when it began.
HostTouches(slots) ==
    touched' = IF actor # Nobody THEN touched \cup slots ELSE touched \ slots

\* The item pool has room: erase the boss's objects, leave its health pickup
\* (drop_health), clear the seat.
CleanupBoss ==
    /\ CleanupDue /\ FreeItems # {}
    /\ LET d == First(FreeItems)
           cleared == [bosses EXCEPT ![seat] = EmptyBoss]
       IN  /\ ram' = [Erased EXCEPT ![d] = "other"]
           /\ spawner' = [e \in Slots |->
                            IF Erased[e] = "free" THEN Nobody ELSE spawner[e]]
           /\ IF ValidCall(actor, cleared)
              THEN bosses' = cleared /\ owner' = [Disowned EXCEPT ![d] = Nobody]
              ELSE UNCHANGED <<bosses, owner>>
           /\ HostTouches({e \in Slots : owner[e] = seat} \cup {d})
    /\ owed' = [owed EXCEPT ![seat] = IF @ >= 0 THEN @ - 1 ELSE @]
    /\ crossed' = IF actor = seat THEN crossed \cup {seat} ELSE crossed
    /\ pc' = "spawn"
    /\ UNCHANGED <<rushVars, queue, generation, defeated, pendingVars, globals, players,
                   scene, seat>>

CleanupWithoutRetry ==
    /\ CleanupDue /\ FreeItems = {}
    /\ ram' = Erased /\ owner' = Disowned
    /\ spawner' = [e \in Slots |-> IF Erased[e] = "free" THEN Nobody ELSE spawner[e]]
    /\ bosses' = [bosses EXCEPT ![seat] = EmptyBoss]
    /\ HostTouches({e \in Slots : owner[e] = seat})
    /\ NextSeat
    /\ UNCHANGED <<rushVars, queue, generation, defeated, pendingVars, crossed, globals,
                   players, scene, owed>>

\* The item pool is full: erase the objects, keep the seat for another frame.
CleanupRetry ==
    /\ CleanupDue /\ FreeItems = {}
    /\ ram' = Erased /\ owner' = Disowned
    /\ spawner' = [e \in Slots |-> IF Erased[e] = "free" THEN Nobody ELSE spawner[e]]
    /\ bosses' = [bosses EXCEPT ![seat].ticks = CleanupTicks]
    /\ HostTouches({e \in Slots : owner[e] = seat})
    /\ NextSeat
    /\ UNCHANGED <<rushVars, queue, generation, defeated, pendingVars, crossed, globals,
                   players, scene, owed>>
--------------------------------------------------------------------------------
\* Entrance of one seat.

NothingToSpawn ==
    /\ pc = "spawn"
    /\ Phase(seat) # "EMPTY" \/ Free(EnemySlots) = {}
    /\ NextSeat
    /\ UNCHANGED <<rushVars, seatVars, owner, callVars, guestVars, spawner, owed>>

RefusedNever(object) == FALSE

\* MmxBossRushAssign refuses the object of the other seat.
Refused(object) ==
    Phase(Other(seat)) # "EMPTY" /\ bosses[Other(seat)].object = object

\* The draw finds no boss, or the slot is refused: only the queue has moved.
DrawWasted ==
    /\ pc = "spawn" /\ Phase(seat) = "EMPTY" /\ Free(EnemySlots) # {}
    /\ \E n \in NextBoss(queue, Present) :
        /\ n.id = NoBoss \/ Refused(First(Free(EnemySlots)))
        /\ queue' = n.queue
    /\ NextSeat
    /\ UNCHANGED <<rushVars, bosses, generation, defeated, owner, callVars, guestVars,
                   spawner, owed>>

\* The next boss takes the first free enemy slot, with a copy of the globals.
SpawnBoss ==
    /\ pc = "spawn" /\ Phase(seat) = "EMPTY" /\ Free(EnemySlots) # {}
    /\ LET object == First(Free(EnemySlots))
       IN  /\ ~Refused(object)
           /\ \E n \in NextBoss(queue, Present) :
                /\ n.id # NoBoss
                /\ queue' = n.queue
                /\ bosses' = [bosses EXCEPT ![seat] =
                                [phase |-> "ENTERING", id |-> n.id, object |-> object,
                                 ticks |-> 0, globals |-> globals]]
           /\ owner' = [owner EXCEPT ![object] = seat]
           /\ ram' = [ram EXCEPT ![object] = "intro"]
           /\ spawner' = [spawner EXCEPT ![object] = seat]
           /\ HostTouches({object})
    /\ owed' = [owed EXCEPT ![seat] = 0]
    /\ crossed' = IF actor # Nobody THEN crossed \cup {seat} ELSE crossed \ {seat}
    /\ generation' = Wrap(generation)
    /\ NextSeat
    /\ UNCHANGED <<rushVars, defeated, pendingVars, globals, players, scene>>
--------------------------------------------------------------------------------
\* Between the two handlers the host runs the guest, or freezes it for this
\* frame (a co-op scene, a weapon menu): then AfterFrame does not run either.

RunGuest ==
    /\ pc = "run" /\ pc' = "guest"
    /\ UNCHANGED <<rushVars, seatVars, owner, callVars, guestVars, seat, spawner, owed>>

FreezeGuest ==
    /\ pc = "run" /\ pc' = "frame"
    /\ UNCHANGED <<rushVars, seatVars, owner, callVars, guestVars, seat, spawner, owed>>

\* The scheduler returns to the host, also from the middle of a boss's call when
\* the frame's deadline cuts it: the call goes on in a later frame.
SchedulerReturns ==
    /\ pc = "guest" /\ (actor = Nobody \/ actorObject \in Slow)
    /\ pc' = "after"
    /\ UNCHANGED <<rushVars, seatVars, owner, callVars, guestVars, seat, spawner, owed>>
--------------------------------------------------------------------------------
\* The guest outside the encounter (boss_hook).

\* $94D9 with a run loading: the stage is loaded afresh, with full equipment.
StageStart ==
    /\ pc = "guest" /\ mode = "LOADING" /\ ~returnTitle /\ ~stageStarted
    /\ stageStarted' = TRUE /\ scene' = "stage"
    /\ ram' = [d \in Slots |-> "free"] /\ globals' = Nobody
    /\ players' = [p \in Players |-> "alive"]
    /\ spawner' = [d \in Slots |-> Nobody]
    /\ UNCHANGED <<mode, loaded, returnTitle, seatVars, owner, callVars, pc, seat, owed>>

\* $94D9 on the way to the title: the run is over; the logo plays.
TitleReached ==
    /\ pc = "guest" /\ returnTitle /\ scene # "logo"
    /\ Reset /\ mode' = "OFF" /\ returnTitle' = TRUE /\ scene' = "logo"
    /\ ram' = [d \in Slots |-> "free"] /\ globals' = Nobody
    /\ spawner' = [d \in Slots |-> Nobody]
    /\ UNCHANGED <<players, pc, seat>>

\* $8C56: the logo is complete.
LogoDone ==
    /\ pc = "guest" /\ returnTitle /\ scene = "logo"
    /\ returnTitle' = FALSE /\ scene' = "title"
    /\ UNCHANGED <<mode, loaded, stageStarted, seatVars, owner, callVars, ram, globals,
                   players, pc, seat, spawner, owed>>

\* $D1ED in the arena: the battle music is requested ...
ArenaTrigger ==
    /\ pc = "guest" /\ mode = "PREPARING" /\ loaded # "MUSIC_PENDING"
    /\ loaded' = "MUSIC_PENDING"
    /\ UNCHANGED <<mode, stageStarted, returnTitle, seatVars, owner, callVars, guestVars,
                   pc, seat, spawner, owed>>

\* ... and $D1ED again, when the upload has returned: the encounter begins.
MusicUploaded ==
    /\ pc = "guest" /\ mode = "PREPARING" /\ loaded = "MUSIC_PENDING"
    /\ loaded' = "ARENA_LOADED" /\ mode' = "PLAYING"
    /\ UNCHANGED <<stageStarted, returnTitle, seatVars, owner, callVars, guestVars,
                   pc, seat, spawner, owed>>
--------------------------------------------------------------------------------
\* A boss's call (actor_hook) and what the guest may do inside it.

InPlay == pc = "guest" /\ mode = "PLAYING"

\* The update of a defeated boss's body is skipped.
DyingBody(d) == Phase(owner[d]) = "DYING" /\ bosses[owner[d]].object = d

CallEnter(d) ==
    /\ InPlay /\ actor = Nobody
    /\ ram[d] # "free" /\ owner[d] # Nobody /\ ~DyingBody(d)
    /\ globals' = bosses[owner[d]].globals
    /\ IF ValidCall(owner[d], bosses)
       THEN /\ actor' = owner[d] /\ actorObject' = d /\ saved' = globals
            /\ occupied' = {e \in Slots : ram[e] # "free"}
       ELSE UNCHANGED pendingVars
    /\ UNCHANGED <<rushVars, seatVars, owner, touched, crossed, ram, players, scene, pc,
                   seat, spawner, owed>>

CallReturnClaimsAll ==
    /\ InPlay /\ actor # Nobody
    /\ owner' = [d \in Slots |-> IF ram[d] = "free" THEN Nobody ELSE actor]
    /\ bosses' = [bosses EXCEPT ![actor].globals = globals]
    /\ globals' = saved
    /\ actor' = Nobody /\ actorObject' = NoSlot /\ occupied' = {} /\ saved' = Nobody
    /\ UNCHANGED <<rushVars, queue, generation, defeated, touched, crossed, ram, players,
                   scene, pc, seat, spawner, owed>>

CallReturnKeepsGlobals ==
    /\ InPlay /\ actor # Nobody
    /\ owner' = [d \in Slots |-> IF ram[d] = "free" THEN Nobody
                                 ELSE IF d \notin occupied THEN actor ELSE owner[d]]
    /\ bosses' = [bosses EXCEPT ![actor].globals = globals]
    /\ actor' = Nobody /\ actorObject' = NoSlot /\ occupied' = {} /\ saved' = Nobody
    /\ UNCHANGED <<rushVars, queue, generation, defeated, touched, crossed, ram, globals,
                   players, scene, pc, seat, spawner, owed>>

CallReturn ==
    /\ InPlay /\ actor # Nobody
    /\ owner' = [d \in Slots |-> IF ram[d] = "free" THEN Nobody
                                 ELSE IF d \notin occupied THEN actor ELSE owner[d]]
    /\ bosses' = [bosses EXCEPT ![actor].globals = globals]
    /\ globals' = saved
    /\ actor' = Nobody /\ actorObject' = NoSlot
    /\ occupied' = {} /\ saved' = Nobody    \* not read before the next call
    /\ touched' = touched \ {d \in Slots : ram[d] = "free"}
    /\ UNCHANGED <<rushVars, queue, generation, defeated, crossed, ram, players,
                   scene, pc, seat, spawner, owed>>

InCall == InPlay /\ actor # Nobody

CallSpawns(d) ==
    /\ InCall /\ ram[d] = "free"
    /\ ram' = [ram EXCEPT ![d] = "other"]
    /\ spawner' = [spawner EXCEPT ![d] = actor]
    /\ UNCHANGED <<rushVars, seatVars, owner, callVars, globals, players, scene, pc, seat,
                   owed>>

CallEndsObject ==
    /\ InCall /\ ram[actorObject] # "free"
    /\ ram[actorObject] \in Natives => BodyVanishes
    /\ ram' = [ram EXCEPT ![actorObject] = "free"]
    /\ spawner' = [spawner EXCEPT ![actorObject] = Nobody]
    /\ UNCHANGED <<rushVars, seatVars, owner, callVars, globals, players, scene, pc, seat,
                   owed>>

CallWritesGlobals ==
    /\ InCall /\ actor \in Borrowers /\ globals' = actor
    /\ UNCHANGED <<rushVars, seatVars, owner, callVars, ram, players, scene, pc, seat,
                   spawner, owed>>

\* The body's own controller: the entrance ends, its health runs out.
BodyAdvances ==
    /\ InCall
    /\ \/ ram[actorObject] = "intro" /\ ram' = [ram EXCEPT ![actorObject] = "fight"]
       \/ ram[actorObject] = "fight" /\ ram' = [ram EXCEPT ![actorObject] = "death"]
    /\ UNCHANGED <<rushVars, seatVars, owner, callVars, globals, players, scene, pc, seat,
                   spawner, owed>>

\* $A677, the native death entry: the defeat is counted there and then, even
\* of a boss whose entrance the host has not yet seen end.
DeathEntry ==
    /\ InCall /\ ram[actorObject] = "death"
    /\ LET s == owner[actorObject]
       IN  /\ s # Nobody /\ bosses[s].object = actorObject /\ Phase(s) # "DYING"
           /\ bosses' = [bosses EXCEPT ![s].phase = "DYING", ![s].ticks = 0]
           /\ owed' = [owed EXCEPT ![s] = @ + 1]
    /\ defeated' = Saturate(defeated)
    /\ UNCHANGED <<rushVars, queue, generation, owner, callVars, guestVars, pc, seat, spawner>>

HitPlayerAgain(p) ==
    /\ InCall
    /\ owner[actorObject] # Nobody /\ Phase(owner[actorObject]) = "FIGHTING"
    /\ players' = [players EXCEPT ![p] = "dying"]
    /\ UNCHANGED <<rushVars, seatVars, owner, callVars, ram, globals, scene, pc, seat,
                   spawner, owed>>

\* $9B03/$9B43: a boss or its child hurts a player fatally.  The hook lets a
\* hit through only from a fighting boss and to a living player: a second hit
\* would begin the death animation again.
HitPlayer(p) ==
    /\ InCall
    /\ owner[actorObject] # Nobody /\ Phase(owner[actorObject]) = "FIGHTING"
    /\ players[p] = "alive"
    /\ players' = [players EXCEPT ![p] = "dying"]
    /\ UNCHANGED <<rushVars, seatVars, owner, callVars, ram, globals, scene, pc, seat,
                   spawner, owed>>
--------------------------------------------------------------------------------
\* The guest between calls.

BetweenCalls == InPlay /\ actor = Nobody

DeathAnimationEnds(p) ==
    /\ BetweenCalls /\ players[p] = "dying"
    /\ players' = [players EXCEPT ![p] = "dead"]
    /\ UNCHANGED <<rushVars, seatVars, owner, callVars, ram, globals, scene, pc, seat,
                   spawner, owed>>

\* Objects of nobody: items and effects come and go.
WorldSpawns(d) ==
    /\ BetweenCalls /\ ram[d] = "free" /\ d \in ItemSlots \cup EffectSlots
    /\ ram' = [ram EXCEPT ![d] = "other"]
    /\ spawner' = [spawner EXCEPT ![d] = Nobody]
    /\ UNCHANGED <<rushVars, seatVars, owner, callVars, globals, players, scene, pc, seat,
                   owed>>

WorldEnds(d) ==
    /\ BetweenCalls /\ ram[d] # "free" /\ owner[d] = Nobody
    /\ ram' = [ram EXCEPT ![d] = "free"]
    /\ spawner' = [spawner EXCEPT ![d] = Nobody]
    /\ UNCHANGED <<rushVars, seatVars, owner, callVars, globals, players, scene, pc, seat,
                   owed>>

\* A player's special weapon clears a hostile projectile outside any call: the
\* slot is free while the host still has it as the boss's.
PlayerShotClears(d) ==
    /\ BetweenCalls /\ ram[d] # "free" /\ d \in ShotSlots
    /\ ram' = [ram EXCEPT ![d] = "free"]
    /\ spawner' = [spawner EXCEPT ![d] = Nobody]
    /\ UNCHANGED <<rushVars, seatVars, owner, callVars, globals, players, scene, pc, seat,
                   owed>>
--------------------------------------------------------------------------------
\* MmxBossRushAfterFrame.

\* What the host may read as the body's state: another object in the slot
\* reads as anything.
Reads(s) ==
    IF bosses[s].object \in Slots /\ ram[bosses[s].object] \in Natives
    THEN {ram[bosses[s].object]} ELSE Natives

AllDead == \A p \in Players : players[p] = "dead"

ObservedWhileAlive(s, native) ==
    LET entered == IF Phase(s) = "ENTERING" /\ native # "intro" THEN "FIGHTING"
                   ELSE Phase(s)
    IN  IF ~AllDead /\ entered = "FIGHTING" /\ (native = "death" \/ ram[bosses[s].object] = "free")
        THEN "DYING" ELSE entered

\* The phase after this observation.
Observed(s, native) ==
    LET entered == IF Phase(s) = "ENTERING" /\ native # "intro" THEN "FIGHTING"
                   ELSE Phase(s)
    IN  IF entered = "FIGHTING" /\ (native = "death" \/ ram[bosses[s].object] = "free")
        THEN "DYING" ELSE entered

\* The seats whose boss this observation finds fallen, and the new count.
Falls(s, native) == Phase(s) # "DYING" /\ Observed(s, native[s]) = "DYING"
Counted(native) ==
    LET one == IF Falls(1, native) THEN Saturate(defeated) ELSE defeated
    IN  IF Falls(2, native) THEN Saturate(one) ELSE one

AfterFrame ==
    /\ pc = "after" /\ mode = "PLAYING"
    /\ \E native \in [Seats -> Natives] :
        /\ \A s \in Seats : native[s] \in Reads(s)
        /\ bosses' = [s \in Seats |->
                IF Falls(s, native) THEN [bosses[s] EXCEPT !.phase = "DYING", !.ticks = 0]
                ELSE [bosses[s] EXCEPT !.phase = Observed(s, native[s])]]
        /\ defeated' = Counted(native)
        /\ owed' = [s \in Seats |-> IF Falls(s, native) THEN owed[s] + 1 ELSE owed[s]]
    /\ IF AllDead
       THEN mode' = "FINISHED" /\ actor' = Nobody /\ scene' = "over"
       ELSE UNCHANGED <<mode, actor, scene>>
    /\ pc' = "frame"
    /\ UNCHANGED <<loaded, stageStarted, returnTitle, queue, generation, owner, occupied,
                   actorObject, saved, touched, crossed, ram, globals, players, seat,
                   spawner>>

AfterFrameIdle ==
    /\ pc = "after" /\ mode # "PLAYING"
    /\ pc' = "frame"
    /\ UNCHANGED <<rushVars, seatVars, owner, callVars, guestVars, seat, spawner, owed>>

\* MmxOnHardwareReset, between two frames.
HardwareReset ==
    /\ pc = "frame" /\ mode # "OFF"
    /\ Reset /\ mode' = "OFF" /\ returnTitle' = FALSE
    /\ ram' = [d \in Slots |-> "free"] /\ globals' = Nobody /\ scene' = "title"
    /\ players' = [p \in Players |-> "alive"]
    /\ spawner' = [d \in Slots |-> Nobody]
    /\ UNCHANGED <<pc, seat>>
--------------------------------------------------------------------------------
FrameStep ==
    \/ Load \/ MainMenu \/ Prepare \/ FrameIdle \/ FrameSeats
    \/ NothingToClean \/ CleanupTick \/ CleanupBoss \/ CleanupRetry
    \/ NothingToSpawn \/ DrawWasted \/ SpawnBoss
    \/ RunGuest \/ FreezeGuest \/ SchedulerReturns
    \/ AfterFrame \/ AfterFrameIdle \/ HardwareReset

GuestStep ==
    \/ StageStart \/ TitleReached \/ LogoDone \/ ArenaTrigger \/ MusicUploaded
    \/ CallReturn \/ CallEndsObject \/ CallWritesGlobals \/ BodyAdvances \/ DeathEntry
    \/ \E d \in Slots : CallEnter(d) \/ CallSpawns(d) \/ WorldSpawns(d) \/ WorldEnds(d)
                            \/ PlayerShotClears(d)
    \/ \E p \in Players : HitPlayer(p) \/ DeathAnimationEnds(p)

Next == FrameStep \/ GuestStep

Spec == Init /\ [][Next]_vars
--------------------------------------------------------------------------------
Modes  == {"OFF", "LOADING", "PLAYING", "FINISHED", "PREPARING"}
Phases == {"EMPTY", "ENTERING", "FIGHTING", "DYING"}
Boss == [phase : Phases, id : Bosses \cup {NoBoss}, object : EnemySlots \cup {NoSlot},
         ticks : 0..CleanupTicks, globals : Owners]

\* The variables keep the types of MmxBossRushState and of guest RAM.
TypeOK ==
    /\ mode \in Modes
    /\ loaded \in {"NOT_LOADED", "ARENA_LOADED", "MUSIC_PENDING"}
    /\ stageStarted \in BOOLEAN /\ returnTitle \in BOOLEAN
    /\ bosses \in [Seats -> Boss]
    /\ queue \in Seq(Bosses)
    /\ generation \in 0..CounterMax /\ defeated \in 0..CounterMax
    /\ owner \in [Slots -> Owners] /\ occupied \subseteq Slots
    /\ actor \in Owners /\ actorObject \in Slots \cup {NoSlot} /\ saved \in Owners
    /\ ram \in [Slots -> Natives \cup {"free", "other"}] /\ globals \in Owners
    /\ players \in [Players -> {"alive", "dying", "dead"}]
    /\ scene \in {"title", "stage", "logo", "over"}
    /\ pc \in {"frame", "clean", "spawn", "run", "guest", "after"} /\ seat \in Seats
    /\ spawner \in [Slots -> Owners] /\ owed \in [Seats -> Int]
    /\ touched \subseteq Slots /\ crossed \subseteq Seats

\* What MmxBossRushValidState demands of the seats, the queue and the pending
\* call holds of every state the host keeps, the draws, assignments and defeats
\* that bypass MmxBossRushSetState included: a snapshot taken at any point can
\* be loaded again, and the only write ever refused is the one of ValidCall.
SeatsDistinct ==
    Phase(1) # "EMPTY" /\ Phase(2) # "EMPTY" =>
        bosses[1].id # bosses[2].id /\ bosses[1].object # bosses[2].object
ValidState ==
    /\ ValidQueue(queue)
    /\ SeatsDistinct
    /\ ValidCall(actor, bosses)
    /\ loaded = "MUSIC_PENDING" => mode = "PREPARING"

\* Objects belong only to seats that hold a boss: otherwise the call of such an
\* object would install a boss's globals and have its record refused.
OwnedHasBoss == \A d \in Slots : owner[d] # Nobody => Phase(owner[d]) # "EMPTY"

\* The score counts every boss that left the fight exactly once, whether the
\* host saw it fall or the guest's death entry reported it.
Standing(s) == IF Phase(s) \in {"ENTERING", "FIGHTING"} THEN 1 ELSE 0
DefeatsCounted ==
    defeated < CounterMax =>
        \/ generation = defeated + Standing(1) + Standing(2)
        \/ generation + CounterMax + 1 = defeated + Standing(1) + Standing(2)

\* Each defeat is paid by exactly one health pickup: it is owed from the defeat
\* until the cleanup that clears the seat, even while the item pool is full.  Only
\* a cleanup that came due in the seat's own suspended call pays more than once:
\* the pickup is written, the cleared seat refused (ValidCall).
PickupOwed ==
    \A s \in Seats \ crossed : owed[s] = IF Phase(s) = "DYING" THEN 1 ELSE 0

\* Every defeat is settled: counted once and paid once.
DefeatsSettled == DefeatsCounted /\ PickupOwed

\* Between calls the host credits every live object to the seat whose call
\* really allocated it: cleanup erases all of a boss's objects and nothing else.
\* No object outlives its boss: when a seat is cleared, and before it is given
\* to the next boss, nothing its calls allocated is left.  A call may be cut by
\* the frame's end and go on frames later; only the slots the host itself erased
\* or filled in such a gap may be credited to the interrupted boss.
NoOrphans ==
    \A d \in Slots \ touched : spawner[d] # Nobody => Phase(spawner[d]) # "EMPTY"
OwnershipFaithful ==
    mode = "PLAYING" =>
        /\ actor = Nobody =>
                \A d \in Slots \ touched : ram[d] # "free" => owner[d] = spawner[d]
        /\ NoOrphans

\* A boss's scene globals stay inside its calls, also in calls that last several
\* frames: between calls the guest works with the world's, and a seat holds the
\* world's or its own, never the other boss's.  Only the globals a seat is filled
\* with while the other's call is pending may be the other's (SpawnBoss).
GlobalsIsolated ==
    mode = "PLAYING" =>
        /\ actor = Nobody => globals = Nobody
        /\ \A s \in Seats \ crossed : bosses[s].globals \in {Nobody, s}

\* A kill traded against the last player's death still counts: a finished run
\* holds no standing boss whose body is already dead.
TradeKillsCount ==
    mode = "FINISHED" =>
        \A s \in Seats : Standing(s) = 1 => ram[bosses[s].object] \notin {"death"}

\* While a run is played the boss of a seat changes only through the cleanup
\* that follows its defeat (MmxBossRushFrame).
OnlyDefeatFrees ==
    [][\A s \in Seats :
        mode = "PLAYING" /\ mode' \in {"PLAYING", "FINISHED"} /\ Phase(s) # "EMPTY" =>
            \/ bosses'[s].id = bosses[s].id
            \/ Phase(s) = "DYING" /\ bosses'[s].phase = "EMPTY"]_vars
--------------------------------------------------------------------------------
Q == INSTANCE BossQueue WITH onStage <- [s \in Seats |-> bosses[s].id]

\* Every draw of the encounter is a draw of the abstract queue: a seat gets the
\* first queued boss that is not on stage, the others are carried forward
\* (MmxBossRushNextBoss under MmxBossRushFrame).
DrawsAsPromised == Q!QLossySpec
--------------------------------------------------------------------------------
\* What the liveness run assumes of the world.  The host steps through its
\* handlers; the scheduler returns every frame; a menu does not stay open, and
\* a co-op scene does not freeze the guest, for ever; a death animation ends.
HostSteps ==
    \/ FrameIdle \/ FrameSeats
    \/ NothingToClean \/ CleanupTick \/ CleanupBoss \/ CleanupRetry
    \/ NothingToSpawn \/ DrawWasted \/ SpawnBoss
    \/ AfterFrame \/ AfterFrameIdle
Fairness ==
    /\ WF_vars(HostSteps) /\ WF_vars(CallReturn)
    /\ SF_vars(FrameSeats) /\ SF_vars(RunGuest) /\ SF_vars(SchedulerReturns)
    /\ \A p \in Players : SF_vars(DeathAnimationEnds(p))

FairSpec == Spec /\ Fairness

\* A defeated boss keeps its seat for ever only for want of room: the run
\* stands still, or the item pool is full at every later cleanup of the seat.
DyingCleared ==
    \A s \in Seats :
        <>[](mode = "PLAYING" /\ Phase(s) = "DYING")
            => <>[](pc = "clean" /\ seat = s => FreeItems = {})

\* When every player has taken its fatal hit the run ends: the surviving boss
\* cannot keep restarting the death animation.
DeathsFinish ==
    (mode = "PLAYING" /\ \A p \in Players : players[p] # "alive") ~> mode # "PLAYING"
================================================================================

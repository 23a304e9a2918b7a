-------------------------------- MODULE CoopTeam --------------------------------
(***************************************************************************)
(* The two seats of a co-op game: who is in play, who drives the world, who *)
(* is beamed out and back, who dies and who returns (mmx_coop.c).           *)
(*                                                                          *)
(* MmxCoopFrameTick runs before the guest: it adopts a new stage, chooses   *)
(* the world actor, moves the partner of a scripted scene, and serves the   *)
(* Select button; pc orders these parts.  If it returns true the guest does *)
(* not run that frame.  Otherwise the guest runs the controller of the      *)
(* projected seat and, redirected by controller_hook, of the other one;     *)
(* then the rest of the world moves, with the hooks that change a seat.     *)
(* Positions, the camera and terrain are abstracted to what the code asks   *)
(* of them (is there a landing, is a seat on screen, below the screen ...), *)
(* chosen anew at every question.                                           *)
(***************************************************************************)
EXTENDS Integers, FiniteSets

CONSTANTS Learner,      \* configured_learner: seat 1 is the learner
          Views,        \* MmxCoopViewsActive: each player has an own camera
          XSeat,        \* the seat that plays X
          MaxHp,        \* a full health bar
          MaxLives,     \* the spare lives of $1F80 that a run can hold
          HoldFrames,   \* frames of a held Select that withdraw a seat (90)
          AwayFrames,   \* frames a learner may stay off screen (120)
          Buttons,      \* the seats whose player uses Select
          World         \* what may happen in this world, see Events

Seats == {0, 1}
None == 2                    \* no seat, for scene_owner and menu_owner - 1
RESCUE == AwayFrames + 1     \* LEARNER_RESCUE: after a fatal hazard
Events == {"contact", "terrain", "pit", "sceneHits", "script", "hold", "door",
           "lift", "armor", "low", "capsule", "farewell", "boss", "refill", "life", "menu",
           "clear", "drain", "stop"}

ASSUME CoopAssumption ==
    /\ Learner \in BOOLEAN /\ Views \in BOOLEAN /\ XSeat \in Seats
    /\ MaxHp \in Nat \ {0} /\ MaxLives \in Nat
    /\ HoldFrames \in Nat \ {0} /\ AwayFrames \in Nat \ {0}
    /\ Buttons \subseteq Seats /\ World \subseteq Events

VARIABLES
    status,       \* MmxCoopPlayer.status
    hp,           \* body $27, without its top bit
    act,          \* body $02: free, in ride armor, or a stage of action 12
    swap,         \* zero.swap_phase: 1, 2 beaming out, 4, 5 beaming in
    solo,         \* solo_death: seats dying while the other lives on
    respawn,      \* respawn_pending
    anchor,       \* the seat that drives the world
    current,      \* the seat projected into guest RAM
    sceneOwner, scenePhase, sceneFlags,
    enrolled, pending,               \* pending is stage_pending
    away,         \* learner_away
    input, pressed,                  \* seats whose Select is held, newly held
    armed, hold,                     \* select_armed, select_hold of each seat
    menuOwner,
    \* the guest's world
    stage,        \* play, the death mode (6), clear (10 and up), or away
    script,       \* a script runs: $1F0C (wait) or another flag (story)
    held,         \* the seat whose body a script has locked ($0C16)
    boss, refill, occupied,          \* boss fight, refill pause, ride armor
    lives,        \* $1F80
    \* the host's place in the frame
    pc, pass,     \* pass is controller_pass
    moved         \* the guest has run since the last landing

bodies  == <<status, hp, act, swap>>
deaths  == <<solo, respawn>>
roles   == <<anchor, current>>
scene   == <<sceneOwner, scenePhase, sceneFlags>>
roster  == <<enrolled, pending>>
select  == <<armed, hold>>
buttons == <<input, pressed>>
world   == <<stage, script, held, boss, refill, occupied, lives>>
place == <<pass, moved>>
vars == <<bodies, deaths, roles, scene, roster, select, buttons, away, menuOwner,
          world, pc, place>>

Other(s) == 1 - s
InScene == sceneOwner # None
IsLearner(s) == Learner /\ s = 1
Dying(s) == act[s] \in {"hit", "dying", "gone"}       \* action 12
Living(s) == status[s] = "alive" /\ hp[s] > 0
Moving == {s \in Seats : swap[s] # 0}
Transition == \E s \in Seats :
    swap[s] # 0 /\ ~(InScene /\ s # sceneOwner /\ "LIVE" \in sceneFlags)

TypeOK ==
    /\ status \in [Seats -> {"absent", "alive", "fallen"}]
    /\ hp \in [Seats -> 0..MaxHp]
    /\ act \in [Seats -> {"free", "armor", "hit", "dying", "gone"}]
    /\ swap \in [Seats -> {0, 1, 2, 4, 5}]
    /\ solo \subseteq Seats /\ respawn \subseteq Seats
    /\ anchor \in Seats /\ current \in Seats
    /\ sceneOwner \in Seats \cup {None} /\ scenePhase \in 0..3
    /\ sceneFlags \subseteq {"LIVE", "WITHDRAW"}
    /\ enrolled \in BOOLEAN /\ pending \in 0..2
    /\ away \in 0..RESCUE
    /\ input \subseteq Seats /\ pressed \subseteq Seats /\ armed \subseteq Seats
    /\ hold \in [Seats -> 0..HoldFrames]
    /\ menuOwner \in Seats \cup {None}
    /\ stage \in {"play", "death", "clear", "away"}
    /\ script \in {"none", "wait", "story"}
    /\ held \in Seats \cup {None}
    /\ boss \in BOOLEAN /\ refill \in BOOLEAN /\ occupied \in BOOLEAN
    /\ lives \in 0..MaxLives
    /\ pc \in {"poll", "stage", "owner", "learner", "scene", "transport", "seat0", "seat1",
               "weapons", "guest", "controller", "return", "world"}
    /\ pass \in 0..2 /\ moved \in BOOLEAN

\* MmxCoopInitialize, at the first controller update of a stage: both seats
\* are enrolled, and the partner waits for a safe landing.
Init ==
    /\ status = [s \in Seats |-> IF s = 0 THEN "alive" ELSE "absent"]
    /\ hp = [s \in Seats |-> MaxHp] /\ act = [s \in Seats |-> "free"]
    /\ swap = [s \in Seats |-> 0]
    /\ solo = {} /\ respawn = {} /\ anchor = 0 /\ current = 0
    /\ sceneOwner = None /\ scenePhase = 0 /\ sceneFlags = {}
    /\ enrolled = TRUE /\ pending = 2 /\ away = 0
    /\ input = {} /\ pressed = {} /\ armed = {} /\ hold = [s \in Seats |-> 0]
    /\ menuOwner = None
    /\ stage = "play" /\ script = "none" /\ held = None
    /\ boss = FALSE /\ refill = FALSE /\ occupied = FALSE /\ lives = MaxLives
    /\ pc = "poll" /\ pass = 0 /\ moved = FALSE
--------------------------------------------------------------------------------
\* Shared parts.

NoSceneKeepsOwner == UNCHANGED sceneOwner /\ scenePhase' = 0 /\ sceneFlags' = {}  \* a mutant
NoScene == sceneOwner' = None /\ scenePhase' = 0 /\ sceneFlags' = {}
NoHolds == hold' = [s \in Seats |-> 0]
Rearm == armed' = {} /\ NoHolds       \* after an arrival Select starts anew

\* begin_scene for the driver d: its living partner starts to beam out.
\* (Definitions called "a mutant" here and below are the code with a plausible
\* slip, for the checks of the properties; nothing else uses them.)
Beam(d, flags) ==
    /\ swap' = [swap EXCEPT ![Other(d)] = 1]
    /\ sceneOwner' = d /\ scenePhase' = 1 /\ sceneFlags' = flags
BeginSceneEvenDead(d) ==       \* a mutant
    IF ~InScene THEN Beam(d, {}) ELSE UNCHANGED <<swap, scene>>
BeginScene(d) ==
    IF ~InScene /\ Living(Other(d)) THEN Beam(d, {}) ELSE UNCHANGED <<swap, scene>>

TickedForever(s) ==        \* the beam-in never ends
    IF s = current THEN {swap[s]}
    ELSE CASE swap[s] = 1 -> {1, 2} [] swap[s] = 2 -> {2, 0}
           [] swap[s] = 4 -> {4, 5} [] swap[s] = 5 -> {5} [] OTHER -> {0}
\* teleport_tick: the phases a tick may leave.  The tick writes the stored
\* state; for the projected seat the next capture overwrites it.
Ticked(s) ==
    IF s = current THEN {swap[s]}
    ELSE CASE swap[s] = 1 -> {1, 2} [] swap[s] = 2 -> {2, 0}
           [] swap[s] = 4 -> {4, 5} [] swap[s] = 5 -> {5, 0} [] OTHER -> {0}

\* place_other: seat s stands on the landing, idle, and beams in.
PlaceOther(s, health) ==
    /\ status' = [status EXCEPT ![s] = "alive"]
    /\ hp' = [hp EXCEPT ![s] = health]
    /\ act' = [act EXCEPT ![s] = "free"]
    /\ swap' = [swap EXCEPT ![s] = 4]
    /\ held' = IF held = s THEN None ELSE held
    /\ moved' = FALSE

SurvivesFallen(d, c) ==    \* only once the orbs are out
    /\ c = d /\ status[d] = "fallen"
    /\ Living(Other(d)) /\ ~IsLearner(Other(d))
\* select_world_survivor, if the driver is d and c is projected.
Survives(d, c) ==
    c = d /\ hp[d] = 0 /\ Living(Other(d)) /\ ~IsLearner(Other(d))
--------------------------------------------------------------------------------
\* The host polls the pads, then calls MmxCoopFrameTick.
Poll ==
    /\ pc = "poll"
    /\ input' \in SUBSET Buttons
    /\ pressed' = input' \ input
    /\ pc' = "stage"
    /\ UNCHANGED <<bodies, deaths, roles, scene, roster, select, away, menuOwner, world, place>>

\* The stage-clear demonstration and the pause menu own the native actor.
TickParked ==
    /\ pc = "stage" /\ (stage = "clear" \/ menuOwner # None)
    /\ pending' = IF stage = "clear" THEN 1 ELSE pending
    /\ NoHolds /\ pc' = "guest"
    /\ UNCHANGED <<bodies, deaths, roles, scene, enrolled, armed, buttons, away, menuOwner,
                   world, place>>

TickAwayKeepsDriver ==
    /\ pc = "stage" /\ stage = "away" /\ menuOwner = None
    /\ pending' = 1 /\ NoHolds /\ UNCHANGED roles
    /\ pc' = "guest"
    /\ UNCHANGED <<bodies, deaths, scene, enrolled, armed, buttons, away, menuOwner, world,
                   place>>
\* Out of a stage: the next one is initialized for the configured P1.
TickAway ==
    /\ pc = "stage" /\ stage = "away" /\ menuOwner = None
    /\ pending' = 1 /\ NoHolds
    /\ IF anchor = 1 THEN anchor' = 0 /\ current' = 0 ELSE UNCHANGED roles
    /\ pc' = "guest"
    /\ UNCHANGED <<bodies, deaths, scene, enrolled, armed, buttons, away, menuOwner, world,
                   place>>

InPlay == stage \in {"play", "death"} /\ menuOwner = None
EntersStage == pending = 1 /\ stage = "play" /\ script # "wait"

\* Native entry has rebuilt P1; the partner is refilled and awaits its landing.
TickEntry ==
    /\ pc = "stage" /\ InPlay /\ EntersStage
    /\ status' = [s \in Seats |-> IF s = 0 THEN "alive" ELSE "absent"]
    /\ hp' = [hp EXCEPT ![1] = MaxHp]
    /\ swap' = [swap EXCEPT ![1] = 0]
    /\ solo' = {} /\ respawn' = {} /\ NoScene /\ away' = 0
    /\ pending' = IF enrolled THEN 2 ELSE 0
    /\ pc' = "owner"
    /\ UNCHANGED <<act, roles, enrolled, select, buttons, menuOwner, world, place>>

TickPlay ==
    /\ pc = "stage" /\ InPlay /\ ~EntersStage
    /\ pc' = "owner"
    /\ UNCHANGED <<bodies, deaths, roles, scene, roster, select, buttons, away, menuOwner,
                   world, place>>

RidersForgotten == {}
\* Who drives the world this frame: the one pilot of an occupied armor; the
\* survivor of a dead driver.  Of two dying seats one dies for the team.
Riders ==
    IF pending = 0 /\ stage = "play" /\ occupied
    THEN {s \in Seats : Living(s) /\ act[s] = "armor"} ELSE {}
TickOwner ==
    /\ pc = "owner"
    /\ LET rider == Cardinality(Riders) = 1
           pilot == IF rider THEN CHOOSE s \in Riders : TRUE ELSE anchor
           shown == IF rider THEN pilot ELSE current
           driver == IF Survives(pilot, shown) THEN Other(pilot) ELSE pilot
       IN  /\ anchor' = driver
           /\ current' = IF Survives(pilot, shown) \/ InScene THEN driver ELSE shown
           /\ solo' = IF \A s \in Seats : status[s] = "alive" /\ hp[s] = 0
                      THEN {Other(driver)} ELSE solo
           /\ pc' = IF refill /\ ~InScene /\ ~Dying(current') THEN "guest" ELSE "learner"
    /\ UNCHANGED <<bodies, respawn, scene, roster, select, buttons, away, menuOwner, world,
                   place>>

\* learner_tick.  P1 takes the world back from a learner, whose health never
\* falls; a rescue, or a long stay off screen, starts his transport.
LearnerIdle == ~Learner \/ InScene \/ pending # 0
Gameplay == stage = "play" /\ script = "none"
TakesBack ==
    /\ anchor = 1 /\ Gameplay /\ held # anchor
    /\ Living(0) /\ swap[0] = 0 /\ act[1] # "armor"
TickLearner ==
    /\ pc = "learner" /\ pc' = "scene"
    /\ IF LearnerIdle THEN UNCHANGED <<hp, swap, roles, scene, away>> ELSE
       LET driver == IF TakesBack THEN 0 ELSE anchor
           absent == driver = 1 \/ status[1] # "alive" \/ swap[1] # 0
           waits  == ~Gameplay \/ hp[0] = 0 \/ Dying(0)
       IN  /\ anchor' = driver /\ current' = driver
           /\ \/ absent /\ away' = 0 /\ UNCHANGED <<swap, scene>>
              \/ ~absent /\ waits /\ UNCHANGED <<swap, scene, away>>
              \/ /\ ~absent /\ ~waits /\ away # RESCUE      \* he is on screen
                 /\ away' = 0 /\ UNCHANGED <<swap, scene>>
              \/ /\ ~absent /\ ~waits /\ ~Views /\ away + 1 < AwayFrames
                 /\ away' = away + 1 /\ UNCHANGED <<swap, scene>>
              \/ /\ ~absent /\ ~waits
                 /\ away = RESCUE \/ (~Views /\ away + 1 = AwayFrames)
                 /\ away' = 0 /\ Beam(driver, {"LIVE"})
           /\ hp' = IF ~absent /\ (hp[1] > 0 \/ sceneOwner' # None)
                    THEN [hp EXCEPT ![1] = MaxHp] ELSE hp
    /\ UNCHANGED <<status, act, deaths, roster, select, buttons, menuOwner, world, place>>

--------------------------------------------------------------------------------
\* scene_tick, first part: does the partner leave?

BothLiving == Living(0) /\ Living(1)
ScriptCalls ==
    /\ status[Other(anchor)] = "alive" /\ hp[current] > 0 /\ ~Dying(current)
    /\ script # "none"
SceneStarts ==
    /\ pc = "scene" /\ ~InScene /\ ScriptCalls
    /\ BeginScene(anchor) /\ pc' = "transport"
    /\ UNCHANGED <<status, hp, act, deaths, roles, roster, select, buttons, away, menuOwner,
                   world, place>>

\* X beside an unentered capsule takes the world (capsule_takes_world).
CapsuleDriver == IF XSeat # anchor /\ ~IsLearner(XSeat) THEN XSeat ELSE anchor
Drivers == {anchor} \cup (IF "capsule" \in World THEN {CapsuleDriver} ELSE {})

CapsuleTaken ==
    /\ pc = "scene" /\ ~InScene /\ Views /\ BothLiving /\ ~ScriptCalls
    /\ \E d \in Drivers : d # anchor /\ anchor' = d /\ current' = d
    /\ pc' = "transport"
    /\ UNCHANGED <<bodies, deaths, scene, roster, select, buttons, away, menuOwner, world,
                   place>>

\* One camera: whoever it leaves below the screen is beamed to the other one,
\* who drives; so is a partner far from a capsule.  A learner is fetched live.
\* low: the seats below the screen; far: a capsule waits far from the partner;
\* neither while a teleport holds the world, nor before the guest has moved
\* them away from its landing, which is on the screen.
LeftBehind ==
    /\ pc = "scene" /\ ~InScene /\ ~Views /\ BothLiving /\ ~ScriptCalls
    /\ \E d \in Drivers, low \in SUBSET Seats, far \in BOOLEAN :
        /\ low # {} => "low" \in World /\ moved /\ Moving = {}
        /\ far => "capsule" \in World /\ moved /\ Moving = {}
        /\ low # {} \/ far \/ d # anchor
        /\ LET lost == ~Learner /\ d \in low /\ Other(d) \notin low
               driver == IF lost THEN Other(d) ELSE d
               leaves == lost \/ Other(d) \in low \/ far
           IN  /\ anchor' = driver /\ current' = driver
               /\ IF leaves /\ ~IsLearner(driver)
                  THEN Beam(driver, IF Learner THEN {"LIVE"} ELSE {})
                  ELSE UNCHANGED <<swap, scene>>
               /\ IF Learner /\ sceneOwner' # None
                  THEN hp' = [hp EXCEPT ![1] = MaxHp] /\ away' = 0
                  ELSE UNCHANGED <<hp, away>>
    /\ pc' = "transport"
    /\ UNCHANGED <<status, act, deaths, roster, select, buttons, menuOwner, world, place>>

SceneStays ==
    /\ pc = "scene" /\ (InScene \/ ~ScriptCalls)
    /\ pc' = "transport"
    /\ UNCHANGED <<bodies, deaths, roles, scene, roster, select, buttons, away, menuOwner,
                   world, place>>
--------------------------------------------------------------------------------
\* scene_tick, second part: the partner's transport.
Partner == Other(anchor)

NoTransport ==
    /\ pc = "transport" /\ (~InScene \/ status[Partner] # "alive")
    /\ NoScene /\ pc' = "seat0"
    /\ UNCHANGED <<bodies, deaths, roles, roster, select, buttons, away, menuOwner, world,
                   place>>

Transporting == pc = "transport" /\ InScene /\ status[Partner] = "alive"
LiveScene == "LIVE" \in sceneFlags

\* A live teleport waits for play; any other one holds the whole world.
TransportPaused ==
    /\ Transporting /\ scenePhase # 2 /\ LiveScene /\ stage # "play"
    /\ pc' = "weapons"
    /\ UNCHANGED <<bodies, deaths, roles, scene, roster, select, buttons, away, menuOwner,
                   world, place>>
TransportTick ==
    /\ Transporting /\ scenePhase # 2 /\ (LiveScene => stage = "play")
    /\ \E next \in Ticked(Partner) :
        /\ swap' = [swap EXCEPT ![Partner] = next]
        /\ IF next # 0 THEN UNCHANGED <<status, scene, select>>
           ELSE IF scenePhase = 3 THEN NoScene /\ Rearm /\ UNCHANGED status
           ELSE IF "WITHDRAW" \in sceneFlags
           THEN NoScene /\ status' = [status EXCEPT ![Partner] = "absent"] /\ UNCHANGED select
           ELSE scenePhase' = 2 /\ UNCHANGED <<status, sceneOwner, sceneFlags, select>>
    /\ pc' = IF LiveScene THEN "seat0" ELSE "poll"
    /\ UNCHANGED <<hp, act, deaths, roles, roster, buttons, away, menuOwner, world, place>>

\* The hidden partner returns when the script has let go of the driver and
\* there is a landing beside him.
MayReturn == script = "none" /\ held # current /\ stage = "play" /\ ~refill
ReturnWaits ==
    /\ Transporting /\ scenePhase = 2
    /\ pc' = "weapons"
    /\ UNCHANGED <<bodies, deaths, roles, scene, roster, select, buttons, away, menuOwner,
                   world, place>>
PartnerReturns ==
    /\ Transporting /\ scenePhase = 2 /\ MayReturn
    /\ PlaceOther(Partner, IF IsLearner(Partner) THEN MaxHp ELSE hp[Partner])
    /\ scenePhase' = 3
    /\ pc' = IF LiveScene THEN "weapons" ELSE "poll"
    /\ UNCHANGED <<deaths, roles, sceneOwner, sceneFlags, roster, select, buttons, away,
                   menuOwner, stage, script, boss, refill, occupied, lives, pass>>

--------------------------------------------------------------------------------
\* join_tick: Select withdraws a seat, brings it back, or asks for a life.
SeatStep == [s \in Seats |-> IF s = 0 THEN "seat0" ELSE "seat1"]
NextSeat(s) == IF s = 0 THEN "seat1" ELSE "weapons"

JoinLeaves ==        \* a scene owns the seats
    /\ pc = "seat0" /\ InScene
    /\ pc' = "weapons"
    /\ UNCHANGED <<bodies, deaths, roles, scene, roster, select, buttons, away, menuOwner,
                   world, place>>

\* A teleport holds the world.  P1's return takes the projection, unless the
\* other seat pilots the ride armor.
JoinTransition ==
    /\ pc = "seat0" /\ ~InScene /\ Moving # {}
    /\ LET s == CHOOSE m \in Moving : \A n \in Moving : m <= n IN
       \E next \in Ticked(s) :
        /\ swap' = [swap EXCEPT ![s] = next]
        /\ IF next # 0 THEN UNCHANGED <<status, roles, select>>
           ELSE /\ Rearm
                /\ status' = IF swap[s] = 2 THEN [status EXCEPT ![s] = "absent"] ELSE status
                /\ IF swap[s] = 5 /\ s = 0 /\ ~occupied
                   THEN anchor' = 0 /\ current' = 0 ELSE UNCHANGED roles
    /\ pc' = "poll"
    /\ UNCHANGED <<hp, act, deaths, scene, roster, buttons, away, menuOwner, world, place>>

MayJoin == Gameplay /\ held # anchor /\ hp[current] > 0 /\ ~Dying(current) /\ ~refill
JoinClosed ==
    /\ pc = "seat0" /\ ~InScene /\ Moving = {} /\ ~MayJoin
    /\ NoHolds /\ pc' = "weapons"
    /\ UNCHANGED <<bodies, deaths, roles, scene, roster, armed, buttons, away, menuOwner,
                   world, place>>

Serving(s) ==
    /\ pc = SeatStep[s]
    /\ s = 0 => ~InScene /\ Moving = {} /\ MayJoin

PresentStored(s) == hp[s] > 0 /\ ~Dying(s) /\ swap[s] = 0     \* absent or not
\* living_on_screen, when the camera sees s.
Present(s) == Living(s) /\ ~Dying(s) /\ swap[s] = 0
Armed(s) == IF s \in input THEN armed ELSE armed \cup {s}
NoHold(s) == hold' = [hold EXCEPT ![s] = 0]
Served(s) ==
    /\ pc' = NextSeat(s)
    /\ UNCHANGED <<bodies, solo, scene, buttons, away, menuOwner, world, place>>

\* A fallen seat asks for one of the spare lives (respawn_tick); the request
\* waits for a life, the end of a boss fight, and a landing.
Asked(s) == IF s \in pressed THEN respawn \cup {s} ELSE respawn
FallenWaits(s) ==
    /\ Serving(s) /\ status[s] = "fallen"
    /\ armed' = Armed(s) /\ NoHold(s)
    /\ respawn' = Asked(s)
    /\ current' \in IF s \in Asked(s) /\ Present(Other(s)) /\ lives > 0 /\ ~boss
                    THEN {current, Other(s)} ELSE {current}
    /\ UNCHANGED <<anchor, roster>> /\ Served(s)
FallenReturns(s) ==
    /\ Serving(s) /\ status[s] = "fallen"
    /\ s \in Asked(s) /\ Present(Other(s)) /\ lives > 0 /\ ~boss
    /\ PlaceOther(s, MaxHp)
    /\ lives' = lives - 1 /\ respawn' = Asked(s) \ {s}
    /\ current' = Other(s) /\ Rearm /\ pc' = "poll"
    /\ UNCHANGED <<solo, anchor, scene, roster, buttons, away, menuOwner, stage, script, boss,
                   refill, occupied, pass>>

\* No living partner on screen.
SeatAlone(s) ==
    /\ Serving(s) /\ status[s] # "fallen"
    /\ armed' = Armed(s) /\ NoHold(s)
    /\ UNCHANGED <<respawn, roles, roster>> /\ Served(s)

\* A seat in play holds Select to withdraw; a pilot, and P1 beside a learner,
\* may not.
MayWithdraw(s) ==
    /\ hp[s] > 0 /\ ~Dying(s) /\ act[s] # "armor" /\ ~(s = anchor /\ occupied)
    /\ ~(Learner /\ s # 1)
Holding(s) == s \in input /\ s \in armed /\ MayWithdraw(s)
SeatHolds(s) ==
    /\ Serving(s) /\ status[s] = "alive" /\ Present(Other(s))
    /\ Holding(s) => hold[s] + 1 < HoldFrames
    /\ armed' = Armed(s)
    /\ hold' = [hold EXCEPT ![s] = IF Holding(s) THEN @ + 1
                                   ELSE IF s \in input /\ MayWithdraw(s) THEN @ ELSE 0]
    /\ UNCHANGED <<respawn, roles, roster>> /\ Served(s)
Withdraws(s) ==
    /\ Serving(s) /\ status[s] = "alive" /\ Present(Other(s))
    /\ Holding(s) /\ hold[s] + 1 = HoldFrames
    /\ NoHold(s)
    /\ IF Learner
       THEN /\ IF anchor = 1 THEN UNCHANGED <<hp, swap, scene, away>>
               ELSE /\ Beam(anchor, {"LIVE", "WITHDRAW"})
                    /\ hp' = [hp EXCEPT ![1] = MaxHp] /\ away' = 0
            /\ pc' = "weapons" /\ UNCHANGED roles
       ELSE /\ anchor' = Other(s) /\ current' = Other(s)
            /\ swap' = [swap EXCEPT ![s] = 1]
            /\ pc' = "poll" /\ UNCHANGED <<hp, scene, away>>
    /\ UNCHANGED <<status, act, deaths, roster, armed, buttons, menuOwner, world, place>>

Outside(s) == status[s] = "absent"
\* An absent seat joins: P2 by itself at a stage's start, else by Select.
Automatic(s) == s = 1 /\ pending = 2
JoinWaits(s) ==
    /\ Serving(s) /\ Outside(s) /\ Present(Other(s))
    /\ armed' = Armed(s)
    /\ hold' = IF s \in input THEN hold ELSE [hold EXCEPT ![s] = 0]
    /\ current' \in IF s \in pressed \/ Automatic(s) THEN {current, Other(s)} ELSE {current}
    /\ UNCHANGED <<respawn, anchor, roster>> /\ Served(s)
Joins(s) ==
    /\ Serving(s) /\ Outside(s) /\ Present(Other(s))
    /\ s \in pressed \/ Automatic(s)
    /\ current' = Other(s) /\ enrolled' = TRUE /\ pending' = 0 /\ Rearm
    /\ IF IsLearner(s)
       THEN /\ anchor # 1 /\ PlaceOther(s, MaxHp)
            /\ sceneOwner' = anchor /\ scenePhase' = 3 /\ sceneFlags' = {"LIVE"}
            /\ away' = 0 /\ pc' = "weapons"
       ELSE /\ PlaceOther(s, IF enrolled THEN hp[s] ELSE MaxHp)
            /\ pc' = "poll" /\ UNCHANGED <<scene, away>>
    /\ UNCHANGED <<deaths, anchor, buttons, menuOwner, stage, script, boss, refill, occupied,
                   lives, pass>>

\* The end of MmxCoopFrameTick, in play: each seat's weapons are ticked (no effect
\* on this state), the driver is projected for the guest, and a time stop
\* (Crystal Hunter's, see WeaponTicks) may leave the guest out of the frame.
WeaponsTick ==
    /\ pc = "weapons"
    /\ current' = IF stage = "play" THEN anchor ELSE current
    /\ pc' \in IF "stop" \in World /\ stage = "play" THEN {"guest", "poll"} ELSE {"guest"}
    /\ UNCHANGED <<bodies, deaths, anchor, scene, roster, select, buttons, away, menuOwner,
                   world, place>>
--------------------------------------------------------------------------------
\* The guest's player routine, and controller_hook around it.
GuestStarts ==
    /\ pc = "guest"
    /\ IF menuOwner = None /\ stage \in {"play", "death"}
       THEN pc' = "controller" /\ pass' = 1
       ELSE pc' = "world" /\ UNCHANGED pass
    /\ moved' = TRUE
    /\ UNCHANGED <<bodies, deaths, roles, scene, roster, select, buttons, away, menuOwner,
                   world>>

InController == pc = "controller" /\ pc' = "return"
Parked == refill /\ ~InScene /\ ~Dying(current)

BodyStays ==        \* an ordinary frame of this body, or a frame of its death
    /\ InController /\ (Parked \/ act[current] # "hit")
    /\ UNCHANGED <<bodies, deaths, roles, scene, roster, select, buttons, away, menuOwner,
                   world, place>>

\* A hazard of the terrain (spikes) met by the body itself.  A learner keeps
\* his health (learner_hurt_hook).
Exposed(s) == hp[s] > 0 /\ act[s] = "free" /\ swap[s] = 0
TerrainHurts ==
    /\ InController /\ ~Parked /\ "terrain" \in World /\ stage = "play" /\ pending # 1
    /\ InScene => "sceneHits" \in World \/ LiveScene
    /\ Exposed(current)
    /\ IF IsLearner(current) THEN away' = RESCUE /\ UNCHANGED <<hp, act>>
       ELSE /\ hp' = [hp EXCEPT ![current] = 0] /\ act' = [act EXCEPT ![current] = "hit"]
            /\ UNCHANGED away
    /\ UNCHANGED <<status, swap, deaths, roles, scene, roster, select, buttons, menuOwner,
                   world, place>>

\* death_hook, $8A5C: the death begins, for the seat alone if the other one
\* lives or drives: then the pause of the native countdown is undone.  A
\* learner is healed and rescued instead.
DiesAlone(s) ==
    /\ ~IsLearner(Other(s)) /\ status[Other(s)] = "alive"
    /\ hp[Other(s)] > 0 \/ s # anchor
DeathStartsForAll ==
    /\ InController /\ ~Parked /\ act[current] = "hit"
    /\ act' = [act EXCEPT ![current] = "dying"]
    /\ solo' = IF DiesAlone(current) THEN solo \cup {current} ELSE solo \ {current}
    /\ refill' = (refill \/ ~DiesAlone(current))
    /\ UNCHANGED <<hp, status, swap, respawn, roles, scene, roster, select, buttons, away,
                   menuOwner, stage, script, held, boss, occupied, lives, place>>
DeathStarts ==
    /\ InController /\ ~Parked /\ act[current] = "hit"
    /\ IF IsLearner(current)
       THEN /\ hp' = [hp EXCEPT ![current] = MaxHp]
            /\ act' = [act EXCEPT ![current] = "free"]
            /\ away' = RESCUE /\ UNCHANGED solo
       ELSE /\ act' = [act EXCEPT ![current] = "dying"]
            /\ solo' = IF DiesAlone(current) THEN solo \cup {current} ELSE solo \ {current}
            /\ UNCHANGED <<hp, away>>
    /\ refill' = (refill \/ (act'[current] = "dying" /\ ~DiesAlone(current)))
    /\ UNCHANGED <<status, swap, respawn, roles, scene, roster, select, buttons, menuOwner,
                   stage, script, held, boss, occupied, lives, place>>

\* death_hook, $8B0B: the countdown ends.  A seat that died alone has fallen;
\* otherwise the native controller goes on to the restart of the team.
DeathEnds ==
    /\ InController /\ ~Parked /\ act[current] = "dying"
    /\ act' = [act EXCEPT ![current] = "gone"]
    /\ solo' = solo \ {current}
    /\ status' = IF current \in solo THEN [status EXCEPT ![current] = "fallen"] ELSE status
    /\ UNCHANGED <<hp, swap, respawn, roles, scene, roster, select, buttons, away, menuOwner,
                   world, place>>

\* The routine returns: it runs again for the other seat in play, which then
\* drives if this one has died; after that the driver is projected.
RunsPartner ==
    /\ pass = 1 /\ ~InScene /\ status[Other(current)] = "alive" /\ script # "wait"
SecondPass ==
    /\ pc = "return" /\ RunsPartner
    /\ anchor' = IF hp[current] = 0 /\ hp[Other(current)] > 0 /\ ~IsLearner(Other(current))
                 THEN Other(current) ELSE anchor
    /\ current' = Other(current)
    /\ pass' = 2 /\ pc' = "controller" /\ UNCHANGED moved
    /\ UNCHANGED <<bodies, deaths, scene, roster, select, buttons, away, menuOwner, world>>
ControllerReturns ==
    /\ pc = "return" /\ ~RunsPartner
    /\ current' = IF pass = 2 THEN anchor ELSE current
    /\ pass' = 0 /\ pc' = "world" /\ UNCHANGED moved
    /\ UNCHANGED <<bodies, deaths, anchor, scene, roster, select, buttons, away, menuOwner,
                   world>>
--------------------------------------------------------------------------------
\* The rest of the guest's frame, with the hooks that act on the seats.
\* Any number of these happen before the frame ends.
Running ==
    pc = "world" /\ stage = "play" /\ pending # 1 /\ menuOwner = None /\ ~refill
Host == <<scene, roster, select, buttons, menuOwner, pc, place>>

TouchedHidden == IF status[Other(current)] # "alive" THEN {current} ELSE Seats
\* Which bodies an object can touch: the projected one, and the partner on a
\* second pass that no scene allows.
Touched ==
    IF InScene \/ status[Other(current)] # "alive" THEN {current} ELSE Seats
Hit(S, damage) ==
    /\ S # {} /\ \A s \in S : Exposed(s)
    /\ InScene => "sceneHits" \in World \/ LiveScene
    /\ hp' = [s \in Seats |-> IF s \in S /\ ~IsLearner(s)
                              THEN IF damage < hp[s] THEN hp[s] - damage ELSE 0 ELSE hp[s]]
    /\ act' = [s \in Seats |-> IF s \in S /\ hp'[s] = 0 THEN "hit" ELSE act[s]]
    /\ away' = IF damage = MaxHp /\ \E s \in S : IsLearner(s) THEN RESCUE ELSE away

\* contact_hook: both passes, then the survivor takes the world.
Contact ==
    /\ Running /\ "contact" \in World
    /\ \E S \in SUBSET Touched, damage \in {1, MaxHp} : Hit(S, damage)
    /\ IF /\ Touched = Seats /\ current = anchor /\ hp'[anchor] = 0
          /\ hp'[Other(anchor)] > 0 /\ ~IsLearner(Other(anchor))
       THEN anchor' = Other(anchor) /\ current' = Other(anchor) ELSE UNCHANGED roles
    /\ UNCHANGED <<status, swap, deaths, Host, world>>

\* A crusher: no handover until the next frame.
Crushed ==
    /\ Running /\ "terrain" \in World
    /\ \E s \in Touched : Hit({s}, MaxHp)
    /\ UNCHANGED <<status, swap, deaths, roles, Host, world>>

\* A drain lowers a learner's health past learner_hurt_hook.
Drained ==
    /\ Running /\ "drain" \in World /\ Learner /\ ~InScene
    /\ status[1] = "alive" /\ Exposed(1)
    /\ hp' = [hp EXCEPT ![1] = @ - 1]
    /\ act' = IF hp'[1] = 0 THEN [act EXCEPT ![1] = "hit"] ELSE act
    /\ UNCHANGED <<status, swap, deaths, roles, Host, away, world>>

\* camera_hook and the native check: a pit below the level.
Falls(s) ==
    /\ Running /\ "pit" \in World /\ hp[s] > 0 /\ ~Dying(s)
    /\ IF s = anchor
       THEN current = s /\ (InScene => "sceneHits" \in World \/ LiveScene)
       ELSE status[s] = "alive" /\ ~InScene /\ ~Transition /\ held # anchor
    /\ IF IsLearner(s) THEN away' = RESCUE /\ UNCHANGED <<hp, act>>
       ELSE /\ hp' = [hp EXCEPT ![s] = 0] /\ act' = [act EXCEPT ![s] = "hit"]
            /\ UNCHANGED away
    /\ UNCHANGED <<status, swap, deaths, roles, Host, world>>

\* armor_board_hook: who touches the empty armor pilots it and drives.
Boards(s) ==
    /\ Running /\ "armor" \in World /\ ~occupied
    /\ hp[s] > 0 /\ act[s] = "free" /\ swap[s] = 0
    /\ s # current => status[s] = "alive" /\ ~InScene /\ ~IsLearner(s)
    /\ act' = [act EXCEPT ![s] = "armor"] /\ occupied' = TRUE
    /\ IF s # current THEN anchor' = s /\ current' = s ELSE UNCHANGED roles
    /\ UNCHANGED <<status, hp, swap, deaths, Host, away, stage, script, held, boss, refill,
                   lives>>
\* The pilot leaves; or the armor of a dead pilot falls empty.
ArmorLeft ==
    /\ Running /\ occupied
    /\ IF act[current] = "armor" THEN act' = [act EXCEPT ![current] = "free"]
       ELSE (\A s \in Seats : status[s] = "alive" => act[s] # "armor") /\ UNCHANGED act
    /\ occupied' = FALSE
    /\ UNCHANGED <<status, hp, swap, deaths, roles, Host, away, stage, script, held, boss,
                   refill, lives>>

\* Seat s enters a passage whose script then holds it.  If both seats are asked,
\* whoever enters drives and the partner is beamed out.
Enters(s, both) ==
    /\ Running /\ ~InScene /\ held = None /\ Exposed(s)
    /\ IF both /\ status[Partner] = "alive"
       THEN anchor' = s /\ current' = s /\ BeginScene(s)
       ELSE s = anchor /\ UNCHANGED <<roles, swap, scene>>
    /\ held' = s
    /\ UNCHANGED <<status, hp, act, deaths, roster, select, buttons, away, menuOwner, stage,
                   script, boss, refill, occupied, lives, pc, place>>
\* door_hook asks no learner; eagle_lift_hook, Storm Eagle's lift, asks everyone.
EntersDoor(s) == "door" \in World /\ Enters(s, ~Learner)
RidesLift(s) == "lift" \in World /\ Enters(s, TRUE)

\* The scripts of the world actor: dialogues, capsules, boss introductions.
ScriptStarts ==
    /\ Running /\ "script" \in World /\ script = "none" /\ hp[anchor] > 0
    /\ script' \in {"wait", "story"}
    /\ held' \in {held, anchor}
    /\ UNCHANGED <<bodies, deaths, roles, Host, away, stage, boss, refill, occupied, lives>>
HoldStarts ==
    /\ Running /\ "hold" \in World /\ held = None /\ hp[anchor] > 0
    /\ held' = anchor
    /\ UNCHANGED <<bodies, deaths, roles, Host, away, stage, script, boss, refill, occupied,
                   lives>>
ScriptEnds ==
    /\ pc = "world" /\ stage = "play" /\ menuOwner = None /\ ~refill
    /\ script # "none" \/ held # None
    /\ script' = "none" /\ held' = None
    /\ UNCHANGED <<bodies, deaths, roles, Host, away, stage, boss, refill, occupied, lives>>

\* The farewell of story Zero belongs to X, whoever drives (view_actor_hook).
Farewell ==
    /\ Running /\ "farewell" \in World /\ ~InScene /\ pending = 0 /\ script = "none"
    /\ status[XSeat] = "alive" /\ hp[XSeat] > 0 /\ swap[XSeat] = 0
    /\ anchor' = XSeat /\ current' = XSeat /\ BeginScene(XSeat)
    /\ script' = "story"
    /\ UNCHANGED <<status, hp, act, deaths, roster, select, buttons, away, menuOwner, stage,
                   held, boss, refill, occupied, lives, pc, place>>

BossChanges ==
    /\ Running /\ "boss" \in World /\ boss' = ~boss
    /\ UNCHANGED <<bodies, deaths, roles, Host, away, stage, script, held, refill, occupied,
                   lives>>
OneUp ==
    /\ Running /\ "life" \in World /\ lives < MaxLives /\ lives' = lives + 1
    /\ UNCHANGED <<bodies, deaths, roles, Host, away, stage, script, held, boss, refill,
                   occupied>>

\* A refill pauses the players until it is done.
RefillStarts ==
    /\ Running /\ "refill" \in World /\ \E s \in Seats : Exposed(s) /\ status[s] = "alive"
    /\ refill' = TRUE
    /\ UNCHANGED <<bodies, deaths, roles, Host, away, stage, script, held, boss, occupied,
                   lives>>
RefillEnds ==
    /\ pc = "world" /\ refill /\ menuOwner = None /\ refill' = FALSE
    /\ \A s \in Seats : act[s] \in {"dying", "gone"} /\ status[s] = "alive" => s \in solo
    /\ UNCHANGED <<bodies, deaths, roles, Host, away, stage, script, held, boss, occupied,
                   lives>>

\* menu_hook: the seat whose Start opened the pause menu is projected.
MenuOpens(s) ==
    /\ Running /\ "menu" \in World /\ ~InScene /\ ~Transition
    /\ status[s] = "alive" /\ ~IsLearner(s)
    /\ menuOwner' = s /\ current' = s
    /\ UNCHANGED <<bodies, deaths, anchor, scene, roster, select, buttons, away, world, pc,
                   place>>
MenuCloses ==
    /\ pc = "world" /\ menuOwner # None
    /\ ~InScene /\ ~Transition
    /\ menuOwner' = None /\ current' = anchor
    /\ UNCHANGED <<bodies, deaths, anchor, scene, roster, select, buttons, away, world, pc,
                   place>>
--------------------------------------------------------------------------------
\* The stage: won, lost, left and entered again.  Leaving it ends the frame.
StageClears ==
    /\ Running /\ "clear" \in World /\ \E s \in Seats : status[s] = "alive" /\ hp[s] > 0
    /\ script = "none" /\ held = None /\ Moving = {}
    /\ stage' = "clear" /\ boss' = FALSE
    /\ UNCHANGED <<bodies, deaths, roles, Host, away, script, held, refill, occupied, lives>>
StageLeaves ==
    /\ pc = "world" /\ stage = "clear" /\ pending = 1
    /\ stage' = "away" /\ pc' = "poll"
    /\ UNCHANGED <<bodies, deaths, roles, scene, roster, select, buttons, away, menuOwner,
                   script, held, boss, refill, occupied, lives, place>>

\* death_hook, $9D9E: the team restarts from the checkpoint (the native code
\* has spent a life, or begun a new game with all of them).
TeamRestarts ==
    /\ pc = "world" /\ stage = "death" /\ act[anchor] = "gone"
    /\ current' = 0 /\ anchor' = 0 /\ pending' = 1
    /\ NoScene /\ away' = 0
    /\ status' = [status EXCEPT ![1] = "absent"]
    /\ swap' = [swap EXCEPT ![0] = 0]
    /\ lives' = IF lives = 0 THEN MaxLives ELSE lives - 1
    /\ stage' = "away" /\ script' = "none" /\ held' = None
    /\ boss' = FALSE /\ refill' = FALSE /\ occupied' = FALSE
    /\ pc' = "poll"
    /\ UNCHANGED <<hp, act, deaths, enrolled, select, buttons, menuOwner, place>>

\* The native entry into a stage: P1 stands there with full health.
StageReady ==
    /\ pc = "world" /\ stage = "away" /\ pending = 1
    /\ stage' = "play"
    /\ hp' = [hp EXCEPT ![0] = MaxHp] /\ act' = [act EXCEPT ![0] = "free"]
    /\ script' \in IF "script" \in World THEN {"none", "wait"} ELSE {"none"}
    /\ held' = None /\ occupied' = FALSE
    /\ UNCHANGED <<status, swap, deaths, roles, Host, away, boss, refill, lives>>

OneDead == hp[current] = 0
\* The end of the frame.  The main stage loop sees the projected body dead
\* and ends the game, unless another seat lives (death_hook, $9AC7).
AllDead ==
    /\ hp[current] = 0
    /\ ~(Living(Other(current)) /\ ~IsLearner(Other(current)))
EndFrame ==
    /\ pc = "world" /\ pc' = "poll"
    /\ stage' = IF stage = "play" /\ menuOwner = None /\ pending # 1 /\ AllDead
                THEN "death" ELSE stage
    /\ UNCHANGED <<bodies, deaths, roles, scene, roster, select, buttons, away, menuOwner,
                   script, held, boss, refill, occupied, lives, place>>
--------------------------------------------------------------------------------
FrameTick ==
    \/ TickParked \/ TickAway \/ TickEntry \/ TickPlay \/ TickOwner \/ TickLearner
    \/ SceneStarts \/ CapsuleTaken \/ LeftBehind \/ SceneStays
    \/ NoTransport \/ TransportPaused \/ TransportTick \/ ReturnWaits \/ PartnerReturns
    \/ JoinLeaves \/ JoinTransition \/ JoinClosed
    \/ \E s \in Seats : FallenWaits(s) \/ FallenReturns(s) \/ SeatAlone(s) \/ SeatHolds(s)
                        \/ Withdraws(s) \/ JoinWaits(s) \/ Joins(s)
    \/ WeaponsTick
Controller ==
    GuestStarts \/ BodyStays \/ TerrainHurts \/ DeathStarts \/ DeathEnds \/ SecondPass
    \/ ControllerReturns
WorldMoves ==
    \/ Contact \/ Crushed \/ Drained \/ ArmorLeft
    \/ \E s \in Seats : Falls(s) \/ Boards(s) \/ EntersDoor(s) \/ RidesLift(s)
                        \/ MenuOpens(s)
    \/ ScriptStarts \/ HoldStarts \/ ScriptEnds \/ Farewell \/ BossChanges \/ OneUp
    \/ RefillStarts \/ RefillEnds \/ MenuCloses
    \/ StageClears \/ StageLeaves \/ TeamRestarts \/ StageReady
Next == Poll \/ FrameTick \/ Controller \/ WorldMoves \/ EndFrame

Spec == Init /\ [][Next]_vars

\* The host keeps running frames.  Teleports tick on, landings are met, a death's
\* countdown and a time stop end (HoldsEnd of WeaponTicks); scripts and refills
\* end, pauses are closed, and the native code restarts and enters stages.
HostStep == Poll \/ FrameTick \/ Controller \/ EndFrame
MovesOn ==
    ((TransportTick \/ JoinTransition) /\ swap' # swap) \/ PartnerReturns \/ DeathEnds
TimeFlows == WeaponsTick /\ pc' = "guest"
GuestMovesOn ==
    ScriptEnds \/ RefillEnds \/ MenuCloses \/ StageLeaves \/ TeamRestarts \/ StageReady
FairSpec ==
    /\ Spec /\ WF_vars(HostStep)
    /\ SF_vars(MovesOn) /\ SF_vars(TimeFlows) /\ SF_vars(GuestMovesOn)
--------------------------------------------------------------------------------
\* Properties.

InGame == stage = "play" /\ pending # 1 /\ menuOwner = None

\* Guest scripts test the health of the driver: whenever the guest runs the
\* driver is alive, unless nobody who may drive is (select_world_survivor).
WorldActorLives ==
    pc = "guest" /\ InGame /\ ~InScene
      => Living(anchor) \/ ~Living(Other(anchor)) \/ IsLearner(Other(anchor))

\* Withdrawals, deaths and scenes never leave a stage without a player: when
\* the guest runs, a living seat is neither beamed out nor hidden.
NeverEmptyStage ==
    pc = "guest" /\ InGame => \E s \in Seats :
        /\ Living(s) /\ swap[s] \notin {1, 2}
        /\ scenePhase = 2 => s = anchor

\* The stage ends for the team only when no player who may drive still lives.
TeamMode == stage = "death" => \A s \in Seats : ~Living(s) \/ IsLearner(s)

\* A learner neither dies nor falls, whatever hits him.
LearnerNeverDies ==
    Learner => status[1] # "fallen" /\ act[1] \notin {"dying", "gone"}

\* An occupied ride armor keeps its pilot as the driver: whoever else took
\* the world, the guest moves the armor with its pilot's body.
PilotDrives ==
    pc = "guest" /\ InGame /\ pending = 0 /\ occupied
      => \A s \in Seats : act[s] = "armor" /\ Living(s) => anchor = s /\ current = s

\* Whoever drove the last stage, the native code rebuilds P1 in P1's own seat.
EntryRebuildsP1 == [][stage = "away" /\ stage' = "play" => current = 0 /\ anchor = 0]_vars

\* A partner that a scene takes away is not hurt until he is back.
HiddenUntouched == [][InScene => hp'[Partner] >= hp[Partner]]_vars

\* Who has begun to die finishes dying: nothing but the team's restart, or a
\* learner's rescue, puts him back on his feet.
DyingFinishes ==
    [][\A s \in Seats : status[s] = "alive" /\ Dying(s) /\ ~IsLearner(s) /\ pending # 1
          => Dying(s)' \/ stage # "play"]_vars

\* When the scripts rest, the partner who was hidden for a scene comes back.
SceneReturns == <>[](script = "none" /\ held = None) => []<>~InScene
\* The team plays on: a hidden partner returns and a dead team starts again.
TeamPlaysOn == SceneReturns /\ (stage = "death" ~> stage = "play")
\* Teleports hold the world only for a while: the guest always runs again.
GuestRuns == []<>(pc = "guest")
================================================================================

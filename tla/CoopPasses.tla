------------------------------- MODULE CoopPasses -------------------------------
(***************************************************************************)
(* One guest, two bodies (mmx_coop.c).  The guest knows one player, at      *)
(* $0BA8; the body of the other seat is stored by the host.  Hooks project  *)
(* a seat (MmxCoopSelect), run a native routine a second time for the other *)
(* seat, replay it with the other body and roll the rest back (a ghost), or *)
(* bring back the seat that an object had taken.  CoopTeam says who is in   *)
(* play and who drives; here is the frame in between: routines of the guest *)
(* in any order, the queries nested in them, and the writes they make to    *)
(* whatever body is projected.                                              *)
(*                                                                          *)
(* A body is its health and where it is, both small; truth is the body each *)
(* seat would have if every write had found its own memory.  Registers,     *)
(* stack checks, terrain, weapons and drawing are left out.                 *)
(***************************************************************************)
EXTENDS Naturals, FiniteSets

CONSTANTS Cameras,     \* own cameras (MmxCoopViewsActive) may be off or on
          Casts,       \* the sets of routines that meet in one behavior
          Learners     \* seat 1 may be a learner, or a second player

Seats == {0, 1}
None == 2
Other(s) == 1 - s

\* Guest routines that ask something of a body, by their hooks:
\*   controller ($81:8136), object ($9D67 and four others), shots ($D3DD),
\*   fighter: an enemy with contact, solid: $82:D7D7, platform: $84:AB81,
\*   chaser: Gulpfer and the bounce pad, sensor and turret: the lasers,
\*   eagle: the lift of Storm Eagle, slime: the puddle, item: a pickup,
\*   armor: an empty ride armor, door: $81:E70D and $81:EC98.
Projected == {"fighter", "solid", "platform", "chaser", "sensor", "turret", "eagle", "slime"}
Routines == Projected \cup {"controller", "object", "shots", "item", "armor", "door"}
\* Objects that keep the seat they took: pickup_owner, .3F, slime_p2.
Takers == {"item", "chaser", "sensor", "slime"}

ASSUME PassesAssumption ==
    /\ Cameras \subseteq BOOLEAN /\ Cameras # {} /\ Learners \subseteq BOOLEAN /\ Learners # {}
    /\ Casts \subseteq SUBSET Routines /\ Casts # {}

VARIABLES
    team,     \* stored bodies, the live body, current and anchor
    status,   \* alive or out
    scene,    \* scene_owner is set: the partner is hidden
    game,     \* own cameras, seat 1 a learner, the routines that meet
    routine, asking,     \* what the guest runs, the query nested in it
    turn, first,         \* the pass of the query, the seat it asked first
    firstSaid, flag,     \* the kept first answer, the guest's own flag
    ret, back,           \* actor_return; sensor_return and aim_return
    ghost, saved,        \* shot_ghost.pass and its copies
    claim, taken,        \* the remembered seat of each taker; it holds one
    riders, carry,       \* seats recorded as riding; lift.carry
    foe,                 \* the object's own state
    frame, ran,          \* host or guest; the controller has run
    \* history
    truth, asked, said, got, fit

query == <<asking, turn, first, firstSaid, flag, asked, said, fit>>
passesVars == <<team, status, scene, game, routine, query, ret, back, ghost, saved, claim, taken,
                riders, carry, foe, frame, ran, truth, got>>

Body == [hp : 0..1, at : 0..1]
Fresh == [hp |-> 1, at |-> 0]
IsLearner(s) == game.learner /\ s = 1

PassesTypeOK ==
    /\ team \in [stored : [Seats -> Body], live : Body, current : Seats, anchor : Seats]
    /\ status \in [Seats -> {"alive", "out"}] /\ scene \in BOOLEAN
    /\ game \in [own : BOOLEAN, learner : BOOLEAN, cast : Casts]
    /\ routine \in Routines \cup {"idle"} /\ turn \in 0..2 /\ first \in Seats
    /\ firstSaid \in BOOLEAN /\ flag \in BOOLEAN
    /\ ret \in Seats \cup {None} /\ back \in Seats \cup {None} /\ ghost \in 0..2
    /\ claim \in [Takers -> Seats \cup {None}] /\ taken \subseteq Takers
    /\ riders \subseteq Seats /\ carry \in Seats \cup {None} /\ foe \in 0..1
    /\ frame \in {"tick", "guest"} /\ ran \in BOOLEAN
    /\ asked \in [Seats -> 0..2] /\ said \in [Seats -> BOOLEAN] /\ fit \subseteq Seats
    /\ got \in [Takers -> Seats \cup {None}]

AtStart == [stored |-> [s \in Seats |-> Fresh], live |-> Fresh, current |-> 0, anchor |-> 0]
Unsaved == [team |-> AtStart, foe |-> 0]
PassesInit ==
    /\ team = AtStart
    /\ status = [s \in Seats |-> "alive"] /\ scene = FALSE
    /\ game \in [own : Cameras, learner : Learners, cast : Casts]
    /\ routine = "idle" /\ asking = "none" /\ turn = 0 /\ first = 0
    /\ firstSaid = FALSE /\ flag = FALSE /\ ret = None /\ back = None
    /\ ghost = 0 /\ saved = Unsaved
    /\ claim = [o \in Takers |-> None] /\ taken = {} /\ riders = {} /\ carry = None
    /\ foe = 0 /\ frame = "tick" /\ ran = FALSE
    /\ truth = [body |-> [s \in Seats |-> Fresh], foe |-> 0]
    /\ asked = [s \in Seats |-> 0] /\ said = [s \in Seats |-> FALSE] /\ fit = {}
    /\ got = [o \in Takers |-> None]
--------------------------------------------------------------------------------
\* Projection.

\* MmxCoopCapture and MmxCoopSelect; a ghost refuses both.
Captured(t) == IF ghost = 1 THEN t ELSE [t EXCEPT !.stored[t.current] = t.live]
(* Mutant: the seat that leaves is not captured. *)
SelectLosing(t, s) ==
    IF ghost = 1 \/ s = t.current THEN t
    ELSE [t EXCEPT !.live = t.stored[s], !.current = s]
Select(t, s) ==
    IF ghost = 1 \/ s = t.current THEN t
    ELSE [Captured(t) EXCEPT !.live = t.stored[s], !.current = s]

Stands(t, s) == status[s] = "alive" /\ t.stored[s].hp > 0     \* as the stored copy has it

\* select_world_survivor.
Survivor(t) ==
    LET o == Other(t.anchor) IN
    IF t.current = t.anchor /\ t.live.hp = 0 /\ Stands(t, o) /\ ~IsLearner(o)
    THEN Select([t EXCEPT !.anchor = o], o) ELSE t

\* A host write to the body of seat s, wherever it is.
Poked(t, s, b) ==
    IF s = t.current THEN [t EXCEPT !.live = b] ELSE [t EXCEPT !.stored[s] = b]
BodyOf(t, s) == IF s = t.current THEN t.live ELSE t.stored[s]
Moved(b) == [b EXCEPT !.at = 1 - @]

\* Whose body the guest sees.
Seen == IF ghost = 1 THEN Other(team.current) ELSE team.current
Alive == {s \in Seats : status[s] = "alive"}
Really == {s \in Alive : truth.body[s].hp > 0}

Quiet == <<routine, ret, back, ghost, saved>>
Objs == <<claim, taken, got, riders, carry, foe>>
Roster == <<status, scene, game>>
Clock == <<frame, ran>>
--------------------------------------------------------------------------------
\* The host's part of a frame.

\* MmxCoopFrameTick: repairs and the weapon tick of each seat, then the driver.
Ticked(t) ==
    LET a == Survivor(Captured(t))
        b == IF scene THEN Select(a, a.anchor) ELSE a
        Turn(u, s) == IF status[s] = "alive" /\ (~scene \/ s = u.anchor)
                      THEN Captured(Select(u, s)) ELSE u
    IN Select(Turn(Turn(b, 0), 1), b.anchor)

FrameTick ==
    /\ frame = "tick" /\ frame' = "guest" /\ ran' = FALSE
    /\ team' = Ticked(team)
    /\ UNCHANGED <<Roster, routine, query, ret, back, ghost, saved, Objs, truth>>

\* place_other, at a join, a respawn or the end of a scene: the stored partner
\* stands on the landing.  A refill pauses it (refill_paused).
Placed ==
    LET o == Other(team.anchor) IN
    /\ frame = "tick" /\ team.current = team.anchor /\ "item" \notin taken
    /\ scene \/ status[o] = "out"
    /\ status' = [status EXCEPT ![o] = "alive"] /\ scene' = FALSE
    /\ team' = [team EXCEPT !.stored[o] = Fresh]
    /\ truth' = [truth EXCEPT !.body[o] = Fresh]
    /\ UNCHANGED <<game, routine, query, ret, back, ghost, saved, Objs, Clock>>

\* MmxCoopLiftCarry.
Carried(t) ==
    IF carry # None /\ status[carry] = "alive"
    THEN Poked(t, carry, Moved(BodyOf(t, carry))) ELSE t
WithCarry(bodies) ==
    IF carry # None /\ status[carry] = "alive" THEN [bodies EXCEPT ![carry] = Moved(@)] ELSE bodies

\* After the guest: MmxCoopLiftCarry, MmxCoopSyncPriority (stun), MmxCoopCapture.
EndFrame ==
    LET o == Other(team.anchor)
        c == Carried(team)
        b == WithCarry(truth.body)
    IN /\ frame = "guest" /\ routine = "idle"
       /\ frame' = "tick" /\ carry' = None
       /\ \E stun \in IF status[o] = "alive" /\ ~scene THEN BOOLEAN ELSE {FALSE} :
             /\ team' = Captured(IF stun THEN Poked(c, o, Moved(BodyOf(c, o))) ELSE c)
             /\ truth' = [truth EXCEPT !.body = IF stun THEN [b EXCEPT ![o] = Moved(@)] ELSE b]
       /\ UNCHANGED <<Roster, routine, query, ret, back, ghost, saved, claim, taken, got, riders,
                      foe, ran>>

\* The column's query carries the partner before the camera reads him.
CarryEarly ==
    /\ carry # None /\ frame = "guest" /\ ghost # 1 /\ asking = "none"
    /\ team' = Carried(team) /\ truth' = [truth EXCEPT !.body = WithCarry(@)]
    /\ carry' = None
    /\ UNCHANGED <<Roster, routine, query, ret, back, ghost, saved, claim, taken, got, riders,
                   foe, Clock>>
--------------------------------------------------------------------------------
\* Queries: a native routine run for one body and, by the hook at its return,
\* for the other.

ByDriver == {"object", "shots", "platform", "pickup", "eagle", "door"}
\* The seat asked second: by the driver, by controller_hook, or by who was first.
Partner(k) == IF k \in ByDriver THEN Other(team.anchor)
              ELSE IF k = "controller" THEN Other(team.current) ELSE Other(first)

\* The hook at the entry opens two passes.
Opens(k) ==
    LET o == Other(team.current)
        d == Other(team.anchor)
    IN CASE k = "controller" -> TRUE
         [] k \in {"object", "shots"} -> ~scene /\ status[d] = "alive" /\ team.current = team.anchor
         [] k \in {"contact", "shot", "slime"} -> ~scene /\ status[o] = "alive"
         [] k \in {"platform", "laser"} -> ~scene
         [] k = "lift" -> ~scene /\ Stands(team, o)
         [] k = "board" -> ~scene /\ Stands(team, o) /\ ~IsLearner(o)
         [] k = "pickup" -> ~scene /\ status[d] = "alive" /\ claim["item"] = None
         [] k = "eagle" -> ~scene /\ status[d] = "alive"
         [] k = "door" -> ~scene /\ status[d] = "alive" /\ ~game.learner

\* The hook at the return asks the partner too.
AsksAgain(k) ==
    CASE k = "controller" -> ~scene /\ status[Partner(k)] = "alive"
      [] k \in {"platform", "laser"} -> Stands(team, Partner(k))
      [] k = "pickup" -> team.current = team.anchor
      [] OTHER -> TRUE

\* A first success ends these: there is one pilot, one collector, one victim.
OneTakes == {"shot", "slime", "laser", "pickup", "board", "eagle", "door"}
Taker(k) == CASE k = "pickup" -> "item" [] k = "laser" -> "sensor" [] OTHER -> k
Keeps == {"pickup", "laser", "slime"}        \* and whose seat is remembered

\* Who should be asked.  With own cameras the hooks that take the driver's
\* partner ask him twice when he is the one projected (see PlatformAsksBoth).
Owed(k) ==
    IF k \in ByDriver /\ team.current # team.anchor THEN {}
    ELSE IF scene \/ (k = "door" /\ game.learner) THEN {team.current}
    ELSE IF k \in {"controller", "object", "shots"} THEN Alive
    ELSE Really \ {s \in Seats : k = "board" /\ s # team.current /\ IsLearner(s)}

Nobody == [s \in Seats |-> FALSE]
Open(k) ==
    /\ asking = "none" /\ asking' = k
    /\ turn' = IF Opens(k) THEN 1 ELSE 0
    /\ first' = team.current /\ fit' = Owed(k)
    /\ firstSaid' = FALSE /\ flag' = FALSE
    /\ asked' = [s \in Seats |-> IF s = Seen THEN 1 ELSE 0]
    /\ said' = Nobody
\* contact_hook notes the seat at the entry, before it knows of a hit.
Noted(k) == IF k = "slime" /\ "slime" \notin taken THEN [claim EXCEPT !["slime"] = team.current]
            ELSE claim

\* One success: the seat is remembered and the object is taken.
Take(k, on) ==
    IF on /\ k \in Keeps
    THEN /\ taken' = taken \cup {Taker(k)}
         /\ got' = [got EXCEPT ![Taker(k)] = IF turn = 0 /\ k # "slime" THEN None ELSE Seen]
         /\ claim' = IF turn = 0 THEN claim ELSE [claim EXCEPT ![Taker(k)] = team.current]
    ELSE UNCHANGED <<taken, got, claim>>

\* Whoever opens a door drives, and begin_scene hides a living partner.
Driving == [team EXCEPT !.anchor = team.current]
Enter ==
    LET hides == ~scene /\ Stands(Driving, Other(team.current)) IN
    /\ scene' = (scene \/ hides)
    /\ team' = IF hides THEN Captured(Driving) ELSE Driving

\* The answers stay until the routine ends; the rest of the query is forgotten.
Closed == /\ asking' = "none" /\ turn' = 0 /\ first' = 0 /\ firstSaid' = FALSE /\ flag' = FALSE
          /\ asked' = [s \in Seats |-> 0] /\ fit' = {}
Over == said' = Nobody /\ UNCHANGED <<asking, turn, first, firstSaid, flag, asked, fit>>

\* The driver of the rest of the frame, if the first seat died in its pass.
Handed(t) ==
    LET o == Other(t.current) IN
    IF t.live.hp = 0 /\ t.stored[o].hp > 0 /\ ~IsLearner(o) THEN [t EXCEPT !.anchor = o] ELSE t

\* No second pass was opened: the native answer stands.
ReturnAlone ==
    /\ asking \notin {"none", "aim"} /\ turn = 0
    /\ \E on \in BOOLEAN :
          /\ said' = [said EXCEPT ![Seen] = on] /\ Take(asking, on)
    /\ Closed
    /\ UNCHANGED <<team, Roster, Quiet, riders, carry, foe, Clock, truth>>

\* The first answer of a query that ends with it, or has no one else to ask.
ReturnOnly ==
    /\ asking # "none" /\ turn = 1 /\ ghost # 1
    /\ \E on \in BOOLEAN :
          /\ (asking \in OneTakes /\ on) \/ ~AsksAgain(asking)
          /\ said' = [said EXCEPT ![Seen] = on] /\ Take(asking, on)
          /\ riders' = IF asking # "platform" THEN riders
                       ELSE IF on THEN riders \cup {team.current} ELSE riders \ {team.current}
          /\ CASE asking \in {"eagle", "door"} /\ on -> Enter
               [] asking = "controller" -> team' = Captured(team) /\ UNCHANGED scene
               [] asking = "pickup" /\ ~on ->
                    team' = Select(team, team.anchor) /\ UNCHANGED scene
               [] OTHER -> UNCHANGED <<team, scene>>
    /\ Closed
    /\ UNCHANGED <<status, game, routine, ret, back, ghost, saved, carry, foe, Clock, truth>>

(* Mutant: the second seat starts from the first one's answer. *)
FlagKept(on) == on
\* The guest's flag is put back to what it was at the entry (entry_2c).
FlagFor(on) == FALSE

AskAgain ==
    /\ asking # "none" /\ turn = 1 /\ AsksAgain(asking)
    /\ ~(asking = "shots" /\ ghost = 1)
    /\ \E on \in BOOLEAN :
          /\ ~(asking \in OneTakes /\ on)
          /\ said' = [said EXCEPT ![Seen] = on]
          /\ firstSaid' = on /\ flag' = FlagFor(on)
          /\ riders' = IF asking # "platform" THEN riders
                       ELSE IF on THEN riders \cup {team.current} ELSE riders \ {team.current}
    /\ LET t == IF asking = "controller" THEN Handed(team) ELSE team IN
       /\ team' = Select(t, Partner(asking))
       /\ asked' = [asked EXCEPT ![IF ghost = 1 THEN Seen ELSE Partner(asking)] =
                        IF @ = 2 THEN 2 ELSE @ + 1]
    /\ turn' = 2 /\ ghost' = IF ghost = 1 THEN 1 ELSE 0
    /\ UNCHANGED <<Roster, routine, ret, back, saved, claim, taken, got, carry, foe, Clock, truth,
                   asking, first, fit>>

\* The second answer: the seat that was projected comes back, or stays.
ReturnBoth ==
    /\ asking # "none" /\ turn = 2 /\ ~(asking = "shots" /\ ghost = 1)
    /\ \E on \in BOOLEAN :
          LET rides == flag \/ on IN
          /\ said' = [said EXCEPT ![Seen] = on] /\ Take(asking, on)
          /\ riders' = CASE asking = "platform" ->
                              IF on THEN riders \cup {team.current} ELSE riders \ {team.current}
                         [] asking = "lift" ->
                              {s \in Seats : IF s = first THEN firstSaid ELSE rides}
                         [] OTHER -> riders
          /\ carry' = IF asking = "lift" /\ rides THEN Other(first) ELSE carry
          /\ back' = IF asking = "laser" /\ on THEN first ELSE back
          /\ CASE asking \in {"contact", "shot", "slime"} ->
                    team' = Survivor(Select(team, first)) /\ UNCHANGED scene
               [] asking = "controller" ->
                    team' = Captured(Select(team, team.anchor)) /\ UNCHANGED scene
               [] asking = "lift" \/ (asking \in {"laser", "board"} /\ ~on) ->
                    team' = Select(team, first) /\ UNCHANGED scene
               [] asking \in {"object", "shots", "platform"}
                  \/ (asking \in {"pickup", "eagle", "door"} /\ ~on) ->
                    team' = Select(team, team.anchor) /\ UNCHANGED scene
               [] asking = "board" /\ on -> team' = Driving /\ UNCHANGED scene
               [] asking \in {"eagle", "door"} /\ on -> Enter
               [] OTHER -> UNCHANGED <<team, scene>>
    /\ Closed /\ ghost' = IF ghost = 1 THEN 1 ELSE 0
    /\ UNCHANGED <<status, game, routine, ret, saved, foe, Clock, truth>>
--------------------------------------------------------------------------------
\* The routines of the guest.

Run(r) == frame = "guest" /\ routine = "idle" /\ r \in game.cast /\ routine' = r

\* The player's own update, once a frame; terrain, shots, a door, an armor.
StartOwn(r, k) ==
    /\ Run(r) /\ Open(k)
    /\ r = "controller" => ~ran
    /\ ran' = (ran \/ r = "controller")
    /\ UNCHANGED <<team, Roster, ret, back, ghost, saved, Objs, frame, truth>>

\* The routine of an enemy asks about its own contacts, lifts and sensors.
Queries(r) ==
    CASE r = "fighter" -> {"contact", "shot"} [] r = "solid" -> {"contact", "lift"}
      [] r = "platform" -> {"platform"}
      [] r = "chaser" -> IF "chaser" \in taken THEN {} ELSE {"contact"}
      [] r = "eagle" -> {"eagle"}
      [] r = "sensor" -> IF "sensor" \in taken THEN {} ELSE {"laser"}
      [] r = "slime" -> IF "slime" \in taken THEN {} ELSE {"slime"}
      [] r = "item" -> IF "item" \in taken THEN {} ELSE {"pickup"}
      [] OTHER -> {}

StartQuery ==
    /\ routine \in Projected \cup {"item"}
    /\ \E k \in Queries(routine) : Open(k) /\ claim' = Noted(k)
    /\ UNCHANGED <<team, Roster, routine, ret, back, ghost, saved, taken, got, riders, carry, foe,
                   Clock, truth>>

Standing(t) == LET up == {s \in Seats : Stands(t, s)} IN IF up = {} THEN {t.anchor} ELSE up
(* Mutant: a captor turns to whoever is near. *)
NearestNow(t, r) == Standing(t)
\* The seat an enemy is run against: whom it holds, or one that stands, the
\* nearer of two; or the driver.
Nearest(t, r) ==
    IF r = "chaser" /\ "chaser" \in taken /\ claim["chaser"] # None THEN {claim["chaser"]}
    ELSE Standing(t)

\* view_actor_hook: with own cameras, and for the chasers, the nearest body.
Approached(r) == ~scene /\ (game.own \/ r = "chaser")
\* slime_hook: a pinned body is projected if it stands, or let go.
Pinned(t) == t.stored[claim["slime"]].hp > 0 /\ status[claim["slime"]] = "alive"

StartEnemy(r) ==
    /\ Run(r) /\ asking = "none" /\ ret = None
    /\ \E free \in BOOLEAN :
          LET lost == r = "chaser" /\ "chaser" \in taken /\ claim["chaser"] # None
                      /\ ~Stands(Captured(team), claim["chaser"]) /\ free
              held == IF lost THEN taken \ {"chaser"} ELSE taken
          IN /\ free => lost                     \* a pad lets a retired rider go
             /\ \E s \in IF ~Approached(r) THEN {team.current}
                        ELSE IF lost THEN Standing(Captured(team))
                        ELSE Nearest(Captured(team), r) :
                   LET t == IF Approached(r) THEN Select(Captured(team), s) ELSE team
                       pins == r = "slime" /\ "slime" \in taken
                   IN /\ team' = IF pins /\ Pinned(t) THEN Select(t, claim["slime"]) ELSE t
                      /\ taken' = IF pins /\ ~Pinned(t) THEN held \ {"slime"} ELSE held
    /\ ret' = IF Approached(r) THEN team.current ELSE None
    /\ UNCHANGED <<Roster, query, back, ghost, saved, claim, got, riders, carry, foe, Clock, truth>>

(* Mutant: the seat of the enemy's update stays. *)
EndEnemyKeepsNearest ==
    /\ routine \in Projected /\ asking = "none" /\ ghost # 1
    /\ routine' = "idle" /\ ghost' = 0 /\ ret' = None /\ back' = None
    /\ Over
    /\ UNCHANGED <<team, Roster, saved, Objs, Clock, truth>>
\* The hooks at the end of an enemy's update.
EndEnemy ==
    /\ routine \in Projected /\ asking = "none" /\ ghost # 1
    /\ routine' = "idle" /\ ghost' = 0 /\ ret' = None /\ back' = None
    /\ claim' = IF routine = "chaser" /\ ret # None
                THEN [claim EXCEPT !["chaser"] =
                         IF "chaser" \in taken THEN team.current ELSE None]
                ELSE claim
    /\ LET t == CASE back # None -> Select(team, back)
                  [] routine = "slime" -> Select(team, team.anchor)
                  [] OTHER -> team
       IN team' = IF ret = None THEN t
                  ELSE Survivor(Select(t, IF scene THEN t.anchor ELSE ret))
    /\ Over
    /\ UNCHANGED <<Roster, saved, taken, got, riders, carry, foe, Clock, truth>>

\* A new item forgets the collector of the last one; a taken one has its own.
ClaimOfItem == IF "item" \in taken THEN claim ELSE [claim EXCEPT !["item"] = None]
StartItem ==
    /\ Run("item") /\ asking = "none"
    /\ claim' = ClaimOfItem
    /\ team' = IF claim'["item"] # None THEN Select(team, claim'["item"]) ELSE team
    /\ UNCHANGED <<Roster, query, ret, back, ghost, saved, taken, got, riders, carry, foe, Clock,
                   truth>>

Released(o) == taken' = taken \ {o} /\ got' = [g \in Takers |-> IF g = o THEN None ELSE got[g]]
EndItem ==
    /\ routine = "item" /\ asking = "none" /\ routine' = "idle"
    /\ team' = Select(team, team.anchor)
    /\ \E o \in {"none", "item"} : Released(o)       \* its script may be through
    /\ Over
    /\ UNCHANGED <<Roster, ret, back, ghost, saved, claim, riders, carry, foe, Clock, truth>>

EndOwn ==
    /\ routine \in {"controller", "object", "shots", "armor", "door"} /\ asking = "none"
    /\ routine' = "idle"
    /\ Over
    /\ UNCHANGED <<team, Roster, ret, back, ghost, saved, Objs, Clock, truth>>

\* laser_target_hook: a turret aims at the seat that tripped its sensor.
Aim ==
    /\ routine = "turret" /\ asking = "none" /\ "sensor" \in taken
    /\ asking' = "aim" /\ turn' = 0
    /\ LET s == claim["sensor"] IN
       IF s # None /\ Stands(team, s)
       THEN back' = team.current /\ team' = Select(team, s)
       ELSE UNCHANGED <<team, back>>
    /\ UNCHANGED <<Roster, routine, first, firstSaid, flag, asked, said, fit, ret, ghost, saved,
                   Objs, Clock, truth>>
Aimed ==
    /\ asking = "aim" /\ asking' = "none" /\ back' = None
    /\ team' = IF back # None THEN Select(team, back) ELSE team
    /\ UNCHANGED <<Roster, routine, turn, first, firstSaid, flag, asked, said, fit, ret, ghost,
                   saved, Objs, Clock, truth>>

\* A chaser catches the projected body; a taker's script may let go.
Catch ==
    /\ routine = "chaser" /\ asking = "none" /\ "chaser" \notin taken
    /\ taken' = taken \cup {"chaser"}
    /\ got' = [got EXCEPT !["chaser"] = IF ret = None THEN None ELSE Seen]
    /\ UNCHANGED <<team, Roster, routine, query, ret, back, ghost, saved, claim, riders, carry, foe,
                   Clock, truth>>
LetGo ==
    /\ frame = "guest" /\ asking = "none"
    /\ \E o \in taken :
          /\ \/ o \in {"chaser", "slime"} /\ routine = o
             \/ o = "sensor" /\ routine = "turret"
          /\ Released(o)
    /\ UNCHANGED <<team, Roster, routine, query, ret, back, ghost, saved, claim, riders, carry,
                   foe, Clock, truth>>
--------------------------------------------------------------------------------
\* Ghosts: shots and enemies replayed with the other body.

PartnerReady == Stands(team, Other(team.current))

GhostBegin ==
    /\ ghost = 0 /\ PartnerReady /\ ~scene
    /\ \/ routine = "shots" /\ asking = "shots" /\ turn # 0
       \/ /\ routine = "fighter" /\ asking = "none" /\ ~game.own
          /\ team.current = team.anchor
    /\ saved' = [team |-> team, foe |-> foe]
    /\ team' = [team EXCEPT !.live = team.stored[Other(team.current)]]
    /\ ghost' = 1
    /\ UNCHANGED <<Roster, routine, query, ret, back, Objs, Clock, truth>>

GhostEnd ==
    LET o == Other(saved.team.current) IN
    /\ ghost = 1 /\ (routine = "fighter" => asking = "none")
    /\ ghost' = 2
    /\ team' = [saved.team EXCEPT !.stored[o] =
                    IF routine = "shots" THEN [@ EXCEPT !.at = team.live.at] ELSE team.live]
    /\ foe' = saved.foe /\ saved' = Unsaved
    /\ UNCHANGED <<Roster, routine, query, ret, back, claim, taken, got, riders, carry,
                   Clock, truth>>

\* What the routines do to the body they see and to the object itself.
BodyMoves ==
    /\ routine # "idle" /\ asking # "aim"
    /\ team' = [team EXCEPT !.live = Moved(@)]
    /\ truth' = [truth EXCEPT !.body[Seen] = Moved(@)]
    /\ UNCHANGED <<Roster, routine, query, ret, back, ghost, saved, Objs, Clock>>
BodyHurt ==            \* learner_hurt_hook: never a learner
    /\ asking \in {"contact", "slime", "controller"} /\ team.live.hp > 0 /\ ~IsLearner(Seen)
    /\ team' = [team EXCEPT !.live.hp = 0]
    /\ truth' = [truth EXCEPT !.body[Seen].hp = 0]
    /\ UNCHANGED <<Roster, routine, query, ret, back, ghost, saved, Objs, Clock>>
FoeMoves ==
    /\ routine \in Projected /\ asking = "none"
    /\ foe' = 1 - foe
    /\ truth' = IF ghost = 1 THEN truth ELSE [truth EXCEPT !.foe = 1 - @]
    /\ UNCHANGED <<team, Roster, routine, query, ret, back, ghost, saved, claim, taken, got, riders,
                   carry, Clock>>

\* death_hook $8B0B: the orbs of a death beside a living partner are out.
Fallen ==
    /\ asking = "controller" /\ team.live.hp = 0
    /\ status[team.current] = "alive" /\ status[Other(team.current)] = "alive"
    /\ ~IsLearner(Other(team.current))
    /\ status' = [status EXCEPT ![team.current] = "out"]
    /\ team' = Captured(team)
    /\ UNCHANGED <<scene, game, routine, query, ret, back, ghost, saved, Objs, Clock, truth>>
\* death_hook $9D9E: the guest has restarted with a new body for P1, and the
\* next frame forgets the pickups.
TeamReset ==
    /\ frame = "guest" /\ routine = "idle" /\ \A s \in Really : IsLearner(s)
    /\ team' = [team EXCEPT !.live = Fresh, !.current = 0, !.anchor = 0]
    /\ truth' = [truth EXCEPT !.body = [@ EXCEPT ![0] = Fresh, ![1] = team.stored[1]]]
    /\ status' = [s \in Seats |-> IF s = 0 THEN "alive" ELSE "out"]
    /\ scene' = FALSE /\ taken' = {} /\ claim' = [claim EXCEPT !["item"] = None] /\ carry' = None
    /\ got' = [o \in Takers |-> None]
    /\ UNCHANGED <<game, routine, query, ret, back, ghost, saved, riders, foe, Clock>>

StartRoutine ==
    \/ StartOwn("controller", "controller") \/ StartOwn("object", "object")
    \/ StartOwn("shots", "shots") \/ StartOwn("armor", "board") \/ StartOwn("door", "door")
    \/ \E r \in Projected : StartEnemy(r)
    \/ StartItem
EndRoutine == EndOwn \/ EndEnemy \/ EndItem

PassesNext ==
    \/ FrameTick \/ Placed \/ EndFrame \/ CarryEarly
    \/ StartRoutine \/ EndRoutine
    \/ StartQuery \/ ReturnAlone \/ ReturnOnly \/ AskAgain \/ ReturnBoth
    \/ Aim \/ Aimed \/ Catch \/ LetGo
    \/ GhostBegin \/ GhostEnd
    \/ BodyMoves \/ BodyHurt \/ FoeMoves \/ Fallen \/ TeamReset

PassesSpec == PassesInit /\ [][PassesNext]_passesVars
--------------------------------------------------------------------------------
\* Every write reaches the seat it was made for and survives each projection,
\* capture and rollback, and no object advances twice because two bodies met
\* it: MmxCoopSelect, MmxCoopCapture and the ghosts together.
BodiesKept ==
    ghost # 1 =>
        /\ team.live = truth.body[team.current]
        /\ team.stored[Other(team.current)] = truth.body[Other(team.current)]
        /\ foe = truth.foe

\* Between two routines of the guest its one body is that of the driver, so
\* that the next hook opens its two passes for the right pair.  A driver who
\* dies in the update of an enemy that view_actor_hook had projected for is the
\* exception: actor_return brings his dead body back until the frame ends.
DriverProjected ==
    routine = "idle" =>
        \/ team.current = team.anchor
        \/ (game.own \/ "chaser" \in game.cast) /\ team.live.hp = 0

\* When a query is over, everybody it concerns was asked exactly once, unless
\* the first answer took the one thing there was to take; the recorded riders
\* are those who said so.
QueryOver == asking \notin {"none", "aim"} /\ asking' = "none" /\ ghost # 1 /\ fit # {}
EveryoneAsked ==
    [][QueryOver =>
          /\ \/ \A s \in fit : asked[s] = 1
             \/ asking \in OneTakes /\ \E s \in Seats : said'[s]
          /\ \A s \in Seats : asked[s] <= 1
          /\ asking \in {"platform", "lift"} /\ turn # 0 =>
                riders' \cap fit = {s \in fit : said'[s]}]_passesVars

\* An object that holds a player acts on that player, whoever drives or stands
\* nearer when it does: the collector of an item, the swallowed or bounced
\* body, the pinned one, the one who tripped a laser (while he stands).
Acts(o) ==
    /\ o \in taken /\ got[o] # None
    /\ CASE o = "sensor" -> asking = "aim" /\ Stands(team, got[o])
         [] o = "chaser" -> routine = "chaser" /\ asking = "none" /\ ret # None
         [] o = "slime" -> routine = "slime" /\ said = Nobody     \* from the next update on
         [] o = "item" -> routine = "item" /\ asking = "none"
ClaimsHonoured == \A o \in Takers : Acts(o) => team.current = got[o]

\* mmx_coop.c:2118-2121: the second seat re-enters the platform helper.
PlatformAsksBoth ==
    [][asking = "platform" /\ asking' = "none" => \A s \in Really : asked[s] = 1]_passesVars
================================================================================

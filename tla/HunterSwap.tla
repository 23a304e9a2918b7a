------------------------------ MODULE HunterSwap ------------------------------
(***************************************************************************)
(* X and Zero in one body: the exchange with Select, the health each of    *)
(* them keeps, the low passages only Zero has to slide through and the     *)
(* moves in the air of his Modern behavior.  Every routine maps a moment g *)
(* to the moment it leaves: g.world is the mode of the game, g.body the    *)
(* guest's player object, g.zero the host's record of the two hunters.     *)
(*                                                                         *)
(* The body's act names the guest's action: "idle" and "settle" are action *)
(* 0 after and before its initializer, "walk" and "land" the rest on the   *)
(* ground, "jump", "fall" and "wall" off it, "dash" the dash, "hurt" and   *)
(* "script" what the player does not control.  Places and speeds are left  *)
(* out: how far the column of light has risen is counted in frames.        *)
(***************************************************************************)
EXTENDS Integers, FiniteSets

CONSTANTS
    MaxHealth,       \* the maximum both hunters share (16 to 32 in the code)
    MorphFrames,     \* frames of a morph (7 in the code)
    ExchangeFrames,  \* frames between the two columns (30 in the code)
    Column,          \* frames the column needs to leave the screen
    AirDashFrames    \* frames of Zero's dash in the air (18 in the code)

Hunters == {"x", "zero"}
Active(g) == g.zero.active
Other(g) == IF Active(g) = "x" THEN "zero" ELSE "x"

Staged(g) == g.world.mode # "menu"
InStage(g) == g.world.mode \in {"play", "late"}
Alive(g) == g.body.hp > 0
Airborne(g) == g.body.act \in {"jump", "fall"}

\* Actions in which the player moves and fires.
Free == {"idle", "settle", "walk", "land", "jump", "fall", "wall", "dash"}
\* No teleport, no door, no held script.
Unheld(g) == InStage(g) /\ Alive(g) /\ ~g.world.busy /\ g.body.act \in Free

-----------------------------------------------------------------------------
(* Two pools of health behind the one the guest knows *)

HealthSync(g) ==
    IF ~Staged(g) THEN g
    ELSE [g EXCEPT !.zero.seeded = TRUE,
                   !.zero.hp = [c \in Hunters |-> IF c = Active(g) \/ ~g.zero.seeded
                                                  THEN g.body.hp ELSE @[c]]]

HealthRespawn(g) ==
    [g EXCEPT !.zero.seeded = TRUE, !.zero.hp = [c \in Hunters |-> MaxHealth]]

-----------------------------------------------------------------------------
(* The exchange: a hunter becomes a column of light, leaves, the other one *)
(* comes down.  Each frame of it the guest's scheduler is held.            *)

MayExchange(g) ==
    /\ InStage(g) /\ Alive(g) /\ ~g.world.busy /\ ~g.world.paused
    /\ g.body.act = "idle" /\ g.body.ground

ToPhase(g, n) == [g EXCEPT !.zero.phase = n, !.zero.tick = 0]
Counted(g, frames) ==
    IF g.zero.tick + 1 = frames THEN ToPhase(g, g.zero.phase + 1)
    ELSE [g EXCEPT !.zero.tick = @ + 1]

\* Mutant for PoolsKept: the health of the hunter who left stays in the body.
TradedKeepsHealth(g) == [ToPhase(g, 3) EXCEPT !.zero.active = Other(g)]

\* The other hunter takes the body, with the health he left with.
Traded(g) ==
    [ToPhase(g, 3) EXCEPT !.zero.active = Other(g),
                          !.body.hp = IF g.zero.seeded THEN g.zero.hp[Other(g)] ELSE @]

Rising(g) ==
    LET h == [g EXCEPT !.zero.height = @ + 1]
    IN  IF h.zero.height = Column THEN Traded(h) ELSE h
Falling(g) ==
    IF g.zero.height = 1 THEN ToPhase([g EXCEPT !.zero.height = 0], 5)
    ELSE [g EXCEPT !.zero.height = @ - 1]

\* One frame: what it leaves, and whether the guest waits.  At the end the
\* body starts its idle action again.
Exchange(g, select) ==
    LET n == g.zero.phase
    IN  CASE n = 0 /\ ~(select /\ MayExchange(g)) -> [g |-> g, held |-> FALSE]
          [] n = 0 /\ select /\ MayExchange(g)    -> [g |-> ToPhase(g, 1), held |-> TRUE]
          [] n \in {1, 5} -> [g |-> Counted(g, MorphFrames), held |-> TRUE]
          [] n = 2        -> [g |-> Rising(g), held |-> TRUE]
          [] n = 3        -> [g |-> Counted(g, ExchangeFrames), held |-> TRUE]
          [] n = 4        -> [g |-> Falling(g), held |-> TRUE]
          [] n = 6        -> [g |-> [ToPhase(g, 0) EXCEPT !.body.act = "settle"], held |-> FALSE]

SwapTick(g, select) == Exchange(HealthSync(g), select)

-----------------------------------------------------------------------------
(* Low passages: Zero is taller than X and stays in his dash until there   *)
(* is room to stand.                                                       *)

SlideBlocked(g) == Active(g) = "zero" /\ g.body.ground /\ g.world.low /\ ~g.world.busy

SlideTick(g) ==
    IF SlideBlocked(g) /\ g.body.act \in {"idle", "settle"}
    THEN [g EXCEPT !.body.act = "dash"] ELSE g

SlideHold(g) == SlideBlocked(g) /\ g.body.act = "dash"

-----------------------------------------------------------------------------
(* Modern: one jump and one dash more in the air.  The dash is the guest's *)
(* own dash on a ground that is only pretended (body.prop) while it runs.  *)

Modern(g) == Active(g) = "zero" /\ g.zero.modern

EndAirDash(g) ==
    IF g.zero.dash = 0 THEN g
    ELSE [g EXCEPT !.zero.dash = 0, !.body.prop = FALSE,
                   !.body.act = IF @ = "dash" THEN "fall" ELSE @]

Landed(g) ==
    IF g.body.ground \/ g.body.act = "wall"
    THEN [EndAirDash(g) EXCEPT !.zero.jumpUsed = FALSE, !.zero.dashUsed = FALSE] ELSE g

AirJump(g) == [EndAirDash(g) EXCEPT !.zero.jumpUsed = TRUE, !.body.act = "jump",
                                    !.body.gravity = TRUE]
Stopped(g, pad) == IF pad.dash = "none" THEN EndAirDash(g) ELSE g
Dashed(g, pad, air) ==
    IF air /\ g.zero.dash = 0 /\ ~g.zero.dashUsed /\ pad.dash = "pressed"
    THEN [g EXCEPT !.zero.dashUsed = TRUE, !.zero.dash = AirDashFrames, !.body.act = "dash"] ELSE g
Propped(g) == IF g.zero.dash > 0 THEN [g EXCEPT !.body.prop = TRUE] ELSE g

MovementTick(g, pad) ==
    IF ~Modern(g) THEN g
    ELSE IF ~Unheld(g) THEN EndAirDash(g)
    ELSE LET h == Landed(g)
             air == ~g.body.ground /\ (Airborne(g) \/ h.zero.dash > 0)
         IN  IF air /\ pad.jump /\ ~h.zero.jumpUsed /\ ~g.world.low THEN AirJump(h)
             ELSE Propped(Dashed(Stopped(h, pad), pad, air))

\* After the guest's update.
MovementEnd(g) ==
    IF ~Modern(g) \/ g.zero.dash = 0 THEN g
    ELSE LET h == [g EXCEPT !.body.prop = FALSE]
         IN  IF g.body.act # "dash" \/ g.body.ground \/ g.zero.dash = 1 THEN EndAirDash(h)
             ELSE [h EXCEPT !.zero.dash = @ - 1]
===============================================================================

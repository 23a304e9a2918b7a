------------------------------ MODULE HunterParts ------------------------------
(***************************************************************************)
(* The armor of X2 or X3 on X.  Its parts borrow from the guest: slots for *)
(* their shots, the body's gravity and a ground that is only pretended,    *)
(* buttons, and with the Giga crash and the map of X3 the frame itself.    *)
(* This module is the frame in which the parts, the exchange and Zero's    *)
(* moves take their turns, from the handler in front of the scheduler to   *)
(* the update of each shot.  All four parts are worn.                      *)
(*                                                                         *)
(* Animations are read as what they trigger: a step of a burst waits,      *)
(* fires or ends, a shot splits or is over, a barrier has appeared.  The   *)
(* tracer of X2 is drawing and left out; X3's, the map, holds the world.   *)
(***************************************************************************)
EXTENDS HunterSwap, FiniteSetsExt

CONSTANTS
    ShotSlots,       \* projectile slots of the guest (8 in the code)
    DashFrames,      \* frames of a dash (17, or 33 upwards)
    RestFrames,      \* frames of its recovery (8 or 9)
    GigaHold,        \* the world is held before this frame of a crash (146)
    GigaEnd,         \* its last frame (242)
    BarrierFrames,   \* life of a barrier (300)
    HealFrames,      \* frames X stands still for a point of health (308, then 180)
    FullMeter,       \* a full meter of the crash or the Hyper shots ($1C00)
    PartWants        \* sets of what the player and the stage do in a behavior

ASSUME PartsAssumption == ShotSlots \in Nat /\ DashFrames \in Nat

VARIABLES
    hunters,   \* the moment: game, world, body, zero, armor, slots, shots, count
    turn,      \* the part of the frame that comes next
    pad,       \* the buttons as the guest's player update sees them
    kept,      \* history: the health each hunter should have
    wants      \* what may happen in this behavior

partVars == <<hunters, turn, pad, kept, wants>>

Places == 1 .. ShotSlots
NoRecord == [kind |-> 0, parent |-> 0, split |-> FALSE]
NoBarrier == [level |-> 0, ticks |-> 0, up |-> FALSE]
NoBuster == [burst |-> 0, fired |-> FALSE, ended |-> FALSE, queued |-> FALSE, stored |-> 0,
             charge |-> 0, held |-> FALSE]
NoDash == [ticks |-> 0, up |-> FALSE, used |-> 0, jump |-> FALSE, rest |-> 0]
NoArmor == [valid |-> FALSE, gold |-> FALSE, buster |-> NoBuster, dash |-> NoDash,
            barrier |-> NoBarrier, heal |-> 0, giga |-> 0, crashed |-> FALSE, energy |-> 0,
            hyper |-> FALSE, hyperEnergy |-> 0, combo |-> "none",
            map |-> FALSE, closing |-> FALSE, seen |-> FALSE]

Less(n) == IF n > 0 THEN n - 1 ELSE 0
Charging == 2    \* a charge of 141 frames: two shots; one more level is full

-----------------------------------------------------------------------------
(* The guest's slots and the records beside them.  A slot is free, holds a *)
(* shot of the guest ("native", in its first update "half" or "full") or   *)
(* one of the armor.                                                       *)

Owned(g, i) == g.slots[i] = "armor"

RetireShot(g, i) ==
    [g EXCEPT !.slots[i] = IF Owned(g, i) THEN "free" ELSE @,
              !.count = IF Owned(g, i) THEN Less(@) ELSE @,
              !.shots[i] = NoRecord]

FreePlaces(g) == {i \in Places : g.slots[i] = "free"}
Placed(g, S, kind, parent) ==
    [g EXCEPT !.slots = [i \in Places |-> IF i \in S THEN "armor" ELSE @[i]],
              !.shots = [i \in Places |-> IF i \in S
                                          THEN [NoRecord EXCEPT !.kind = kind, !.parent = parent]
                                          ELSE @[i]],
              !.count = @ + Cardinality(S)]
\* The n lowest of S, fewer when there are fewer.
Lowest(S, n) == {i \in S : Cardinality({j \in S : j < i}) < n}
AllocateShots(g, n, kind, parent) == Placed(g, Lowest(FreePlaces(g), n), kind, parent)

\* Records of shots the guest has removed are dropped.
StaleDropped(g) ==
    [g EXCEPT !.shots = [i \in Places |-> IF Owned(g, i) THEN @[i] ELSE NoRecord]]
\* With X dead every record and every slot of the armor goes.
AllRetired(g) ==
    LET mine == {i \in Places : Owned(g, i)}
    IN  [g EXCEPT !.slots = [i \in Places |-> IF i \in mine THEN "free" ELSE @[i]],
                  !.count = IF @ >= Cardinality(mine) THEN @ - Cardinality(mine) ELSE 0,
                  !.shots = [i \in Places |-> NoRecord]]

-----------------------------------------------------------------------------
(* The barrier of X3 *)

BarrierStart(g) ==
    [g EXCEPT !.armor.barrier = [level |-> IF g.armor.gold THEN 2 ELSE 1,
                                 ticks |-> BarrierFrames, up |-> FALSE]]

BarrierTick(g, appeared) ==
    LET b == g.armor.barrier
    IN  IF b.ticks = 0 \/ (b.up /\ b.ticks = 1) THEN [g EXCEPT !.armor.barrier = NoBarrier]
        ELSE IF b.up THEN [g EXCEPT !.armor.barrier.ticks = @ - 1]
        ELSE [g EXCEPT !.armor.barrier.up = appeared]

Guarded(g) == g.armor.barrier.up /\ g.armor.barrier.ticks > 0
Damage(g, raw) ==
    LET half == raw \div 2
        level == g.armor.barrier.level
        less == IF g.game = 2 THEN (IF raw > 5 THEN raw - 2 ELSE raw - 1)
                ELSE IF Guarded(g) THEN half - level ELSE half
    IN  IF less < 1 THEN 1 ELSE less

\* A hit charges X2's crash if a projectile made it, and takes or raises
\* X3's barrier.
TakeDamage(g, raw, projectile) ==
    IF Active(g) # "x" THEN g
    ELSE IF g.game = 2
         THEN [g EXCEPT !.armor.energy = IF projectile /\ @ + raw <= FullMeter THEN @ + raw
                                         ELSE IF projectile THEN FullMeter ELSE @]
    ELSE IF Guarded(g) THEN (IF g.armor.barrier.level = 1
                             THEN [g EXCEPT !.armor.barrier.ticks = 0, !.armor.barrier.level = 0]
                             ELSE g)
    ELSE IF g.armor.barrier.ticks = 0 THEN BarrierStart(g)
    ELSE g

-----------------------------------------------------------------------------
(* The dash in the air, and upwards with X3's golden armor *)

Playable(g) == Unheld(g) /\ g.world.mode = "play"

\* Mutant for PartsGiveBack: a dash that ends leaves the body floating.
EndDashFloating(g) ==
    IF g.armor.dash.ticks = 0 /\ g.armor.dash.rest = 0 THEN g
    ELSE [g EXCEPT !.armor.dash.ticks = 0, !.armor.dash.up = FALSE, !.armor.dash.rest = 0,
                   !.body.prop = FALSE, !.body.act = IF @ = "dash" THEN "fall" ELSE @]

EndDash(g) ==
    IF g.armor.dash.ticks = 0 /\ g.armor.dash.rest = 0 THEN g
    ELSE [g EXCEPT !.armor.dash.ticks = 0, !.armor.dash.up = FALSE, !.armor.dash.rest = 0,
                   !.body.prop = FALSE, !.body.gravity = TRUE,
                   !.body.act = IF @ = "dash" THEN "fall" ELSE @]

DashRecovery(g) ==
    [g EXCEPT !.armor.dash.ticks = 0, !.armor.dash.rest = RestFrames,
              !.body.prop = FALSE, !.body.gravity = TRUE, !.body.act = "fall"]

Restored(g) ==
    IF g.body.ground \/ g.body.act = "wall"
    THEN [EndDash(g) EXCEPT !.armor.dash.used = 0, !.armor.dash.jump = FALSE] ELSE g
Steered(g, b) == IF g.armor.dash.rest > 0 /\ b.dir # "none" THEN EndDash(g) ELSE g
JumpedOff(g, b) ==
    IF g.body.ground /\ g.body.act = "dash" /\ b.jump THEN [g EXCEPT !.armor.dash.jump = TRUE] ELSE g
Halted(g, b) == IF g.armor.dash.ticks > 0 /\ b.dash = "none" THEN DashRecovery(g) ELSE g

Golden(g) == g.game = 3 /\ g.armor.gold
StartDash(g, b) ==
    IF /\ ~g.body.ground /\ Airborne(g) /\ g.armor.dash.ticks = 0 /\ g.armor.dash.rest = 0
       /\ g.armor.dash.used < (IF Golden(g) THEN 2 ELSE 1)
       /\ g.armor.dash.jump => Golden(g)
       /\ b.dash = "pressed"
    THEN LET up == g.game = 3 /\ b.dir = "up"
         IN  [g EXCEPT !.armor.dash.used = @ + 1, !.armor.dash.up = up,
                       !.armor.dash.ticks = DashFrames, !.body.act = IF up THEN "jump" ELSE "dash"]
    ELSE g
\* While it runs an upward dash flies without gravity, the other one on a
\* ground that is not there.
Lifted(g) ==
    IF g.armor.dash.ticks = 0 THEN g
    ELSE IF g.armor.dash.up THEN [g EXCEPT !.body.gravity = FALSE]
    ELSE [g EXCEPT !.body.prop = TRUE]

DashTick(g, b) == Lifted(StartDash(Halted(JumpedOff(Steered(Restored(g), b), b), b), b))

PartsPlayerEnd(g) ==
    IF Active(g) # "x" THEN g
    ELSE LET h == IF g.armor.dash.rest = 1 THEN [EndDash(g) EXCEPT !.body.act = "fall"]
                  ELSE [g EXCEPT !.armor.dash.rest = Less(@)]
             p == IF h.armor.dash.up THEN h ELSE [h EXCEPT !.body.prop = FALSE]
         IN  IF h.armor.dash.ticks = 0 THEN h
             ELSE IF h.body.ground THEN EndDash(p)
             ELSE IF h.armor.dash.ticks = 1 \/ (~h.armor.dash.up /\ h.body.act # "dash")
             THEN DashRecovery(p)
             ELSE [p EXCEPT !.armor.dash.ticks = @ - 1]

-----------------------------------------------------------------------------
(* The buster: a full charge fires twice.  The first burst stores a second *)
(* shot, which takes the next press; between them the guest does not fire. *)

BusterCancel(g) == [g EXCEPT !.armor.buster = NoBuster]
StartBurst(g, which) ==
    [EndDash(g) EXCEPT !.armor.buster.burst = which, !.armor.buster.ended = FALSE,
                       !.armor.buster.fired = FALSE]

\* What a burst sends: a lead with its children, a full or a half shot.
BurstKind(g) ==
    LET full == g.armor.buster.stored = 2
    IN  IF g.game = 2
        THEN (IF ~full THEN 8 ELSE IF g.armor.buster.burst = 2 THEN 2 ELSE 1)
        ELSE (IF g.armor.buster.burst = 1 THEN 3 ELSE IF full THEN 1 ELSE 8)
ChildrenOf(kind) == IF kind = 2 THEN 2 ELSE IF kind = 3 THEN 3 ELSE 0

Emit(g) ==
    LET kind == BurstKind(g)
    IN  IF FreePlaces(g) = {} THEN g
        ELSE [AllocateShots(AllocateShots(g, 1, kind, 0), ChildrenOf(kind), 4, Min(FreePlaces(g)))
                EXCEPT !.world.cooling = TRUE]

HyperShot(g, b) ==
    IF ~(g.armor.hyper /\ Golden(g) /\ b.fire = "pressed"
         /\ g.armor.buster.burst = 0 /\ g.armor.buster.stored = 0) THEN g
    ELSE IF g.armor.hyperEnergy = 0 THEN [g EXCEPT !.armor.hyper = FALSE]
    ELSE StartBurst([g EXCEPT !.armor.hyperEnergy = @ - 1, !.armor.buster.stored = 2], 1)
SecondAsked(g, b) ==
    IF g.armor.buster.burst = 1 /\ g.armor.buster.fired /\ b.fire = "pressed"
    THEN [g EXCEPT !.armor.buster.queued = TRUE] ELSE g
BurstOver(g) ==
    IF ~g.armor.buster.ended THEN g
    ELSE [g EXCEPT !.armor.buster.burst = 0, !.armor.buster.ended = FALSE,
                   !.armor.buster.charge = IF g.armor.buster.stored = 0 THEN 0 ELSE @,
                   !.body.act = IF @ = "idle" THEN "settle" ELSE @]
\* A press asks for the stored shot; a held button charges, a release fires.
Triggered(g, b, grows) ==
    LET q == g.armor.buster
    IN  IF q.burst > 0 THEN g
        ELSE IF q.stored > 0
             THEN (IF (b.fire = "pressed" \/ q.queued) /\ ~g.world.cooling
                   THEN StartBurst([g EXCEPT !.armor.buster.queued = FALSE], 2) ELSE g)
        ELSE IF b.fire # "none"
             THEN (IF grows /\ q.charge <= Charging
                   THEN [g EXCEPT !.armor.buster.charge = @ + 1] ELSE g)
        ELSE IF q.held /\ q.charge >= Charging
             THEN StartBurst([g EXCEPT !.armor.buster.stored = q.charge - Charging + 1,
                                       !.armor.buster.charge = 0], 1)
        ELSE IF q.held
             THEN [g EXCEPT !.armor.buster.charge = 0, !.world.released = q.charge > 0]
        ELSE g
\* One frame of a burst's animation; on the ground it plants X's feet.
BurstTick(g, step) ==
    LET h == IF step = "end"
             THEN [g EXCEPT !.armor.buster.ended = TRUE,
                            !.armor.buster.stored = IF g.armor.buster.burst = 2 THEN 0 ELSE @]
             ELSE IF step = "fire" /\ ~g.armor.buster.fired
             THEN [Emit(g) EXCEPT !.armor.buster.fired = TRUE]
             ELSE g
    IN  IF h.body.ground /\ h.body.act \notin {"idle", "settle", "fall", "land"}
        THEN [h EXCEPT !.body.act = "settle"] ELSE h

\* What is left of the buttons: a burst and a stored shot own the fire button.
BurstPad(g, b) ==
    IF g.armor.buster.burst > 0
    THEN [b EXCEPT !.fire = "none", !.dash = IF g.body.ground THEN "none" ELSE @]
    ELSE IF g.armor.buster.stored > 0 THEN [b EXCEPT !.fire = "none"]
    ELSE b

BusterPlayer(g, b, see) ==
    IF g.world.special THEN [g |-> BusterCancel(g), pad |-> b]
    ELSE LET h == [Triggered(BurstOver(SecondAsked(HyperShot(g, b), b)), b, see.grows)
                     EXCEPT !.armor.buster.held = b.fire # "none"]
             k == IF h.armor.buster.burst > 0 THEN BurstTick(h, see.step) ELSE h
         IN  [g |-> k, pad |-> BurstPad(k, b)]

-----------------------------------------------------------------------------
(* The Giga crash of X2 *)

GigaPlayer(g, b) ==
    IF ~Playable(g) THEN [g |-> [g EXCEPT !.armor.giga = 0, !.body.gravity = TRUE], pad |-> b]
    ELSE LET sent == g.armor.giga >= GigaHold /\ ~g.armor.crashed /\ FreePlaces(g) # {}
             h == IF sent THEN [AllocateShots(g, 1, 7, 0) EXCEPT !.armor.crashed = TRUE] ELSE g
         IN  [g |-> [h EXCEPT !.body.act = "fall", !.body.gravity = FALSE],
              pad |-> [fire |-> "none", jump |-> FALSE, dash |-> "none", dir |-> "none"]]

\* The world is open: no pause, no door, no teleport.
WorldOpen(g) == g.world.mode = "play" /\ ~g.world.paused /\ ~g.world.busy
AsksCrash(g) ==
    /\ g.game = 2 /\ g.armor.valid /\ g.armor.energy = FullMeter
    /\ g.body.act \in Free \ {"wall"} /\ g.count = 0
StartCrash(g) ==
    [g EXCEPT !.armor.energy = 0, !.armor.giga = 1, !.armor.crashed = FALSE,
              !.armor.buster = NoBuster, !.body.ground = FALSE, !.body.gravity = FALSE]

DownCombo(g, pressed) ==
    IF ~(pressed /\ g.armor.giga = 0 /\ WorldOpen(g)) THEN g
    ELSE IF Golden(g) THEN [g EXCEPT !.armor.hyper = ~@]
    ELSE IF AsksCrash(g) THEN StartCrash(g)
    ELSE g

EndCrash(g) == [g EXCEPT !.armor.giga = 0, !.body.gravity = TRUE, !.body.act = "fall"]

-----------------------------------------------------------------------------
(* The map of X3, and the handler in front of the scheduler *)

SettledX(g) == g.body.act = "idle" /\ g.body.ground

\* The map opens by itself once in a stage, and by its buttons; another
\* button closes it, and the world stays held until all are released.
MapTick(g, keys, pressed) ==
    LET opens == g.game = 3 /\ WorldOpen(g) /\ SettledX(g) /\ ~g.armor.seen
        toggles == pressed /\ WorldOpen(g) /\ g.game = 3
    IN  CASE g.armor.closing -> [g |-> [g EXCEPT !.armor.closing = keys # "none"], held |-> TRUE]
          [] ~g.armor.closing /\ opens ->
                [g |-> [g EXCEPT !.armor.seen = TRUE, !.armor.map = TRUE], held |-> TRUE]
          [] ~g.armor.closing /\ ~opens /\ toggles ->
                [g |-> [g EXCEPT !.armor.map = ~@, !.armor.closing = g.armor.map], held |-> TRUE]
          [] ~g.armor.closing /\ ~opens /\ ~toggles /\ g.armor.map /\ keys = "other" ->
                [g |-> [g EXCEPT !.armor.map = FALSE, !.armor.closing = TRUE], held |-> TRUE]
          [] OTHER -> [g |-> g, held |-> g.armor.map]

\* Without X the tools are put away, and a crash with them: asked for while
\* X is leaving it is cut off here, and nothing gives the gravity back (the
\* history world.cut).
Shut(g) == [g EXCEPT !.armor.combo = "none", !.armor.map = FALSE, !.armor.closing = FALSE,
                     !.armor.giga = 0, !.world.cut = @ \/ g.armor.giga > 0]

PartsFrame(g, keys) ==
    LET combo == IF keys = "up" \/ (keys = "down" /\ (g.game = 2 \/ g.armor.gold)) THEN keys
                 ELSE "none"
        pressed(c) == combo = c /\ g.armor.combo # c
        h == [DownCombo([g EXCEPT !.armor.giga = IF @ > 0 THEN @ + 1 ELSE 0], pressed("down"))
                EXCEPT !.armor.combo = combo]
    IN  IF ~Staged(g) THEN [g |-> [g EXCEPT !.armor = NoArmor,
                                            !.shots = [i \in Places |-> NoRecord]], held |-> FALSE]
        ELSE IF ~InStage(g)
        THEN [g |-> [Shut(g) EXCEPT !.armor.valid = FALSE, !.armor.seen = FALSE], held |-> FALSE]
        ELSE IF Active(g) # "x" \/ ~Alive(g) THEN [g |-> Shut(g), held |-> FALSE]
        ELSE IF g.armor.giga > 0 /\ g.world.paused THEN [g |-> g, held |-> FALSE]
        ELSE IF g.armor.giga = GigaEnd THEN [g |-> EndCrash(g), held |-> FALSE]
        ELSE IF h.armor.giga \in 1 .. GigaHold - 1 THEN [g |-> h, held |-> TRUE]
        ELSE MapTick(h, keys, pressed("up"))

-----------------------------------------------------------------------------
(* In front of the player's update *)

\* The first update of a stage starts with everything temporary put down.
Prepared(g) ==
    IF g.armor.valid THEN g
    ELSE [g EXCEPT !.armor = [@ EXCEPT !.valid = TRUE, !.barrier = NoBarrier, !.buster = NoBuster,
                                       !.dash = NoDash, !.heal = 0, !.giga = 0, !.crashed = FALSE,
                                       !.hyper = FALSE,
                                       !.hyperEnergy = IF Golden(g) THEN FullMeter ELSE @],
                   !.shots = [i \in Places |-> NoRecord]]

Still(g, b) ==
    /\ g.body.ground /\ g.body.act \in {"idle", "settle"}
    /\ b.fire = "none" /\ ~b.jump /\ b.dash = "none" /\ b.dir = "none"
HealTick(g, b) ==
    IF ~(Golden(g) /\ Still(g, b)) THEN [g EXCEPT !.armor.heal = 0]
    ELSE IF g.armor.heal # 1
    THEN [g EXCEPT !.armor.heal = IF @ = 0 THEN HealFrames - 1 ELSE @ - 1]
    ELSE [g EXCEPT !.armor.heal = HealFrames,
                   !.body.hp = IF @ < MaxHealth THEN @ + 1 ELSE @]

PrePlayer(g, b, see) ==
    LET h == BarrierTick(Prepared(g), see.appeared)
        k == IF Alive(g) THEN StaleDropped(h)
             ELSE [AllRetired(h) EXCEPT !.armor.barrier = NoBarrier]
        kind == g.body.act = "hurt" /\ k.armor.buster.charge > 0
                /\ k.armor.buster.burst = 0 /\ k.armor.buster.stored = 0
        hook == BusterPlayer(k, b, see)
    IN  IF Active(g) # "x" THEN [g |-> g, pad |-> b]
        ELSE IF k.armor.giga > 0 THEN GigaPlayer(k, b)
        ELSE IF ~Playable(g)
        THEN [g |-> IF kind THEN EndDash(k) ELSE BusterCancel(EndDash(k)), pad |-> b]
        ELSE [g |-> DashTick(HealTick(hook.g, hook.pad), hook.pad), pad |-> hook.pad]

-----------------------------------------------------------------------------
(* In front of the update of a shot *)

\* A half or full shot the guest has just made becomes one of the armor.
Taken(g, i) ==
    IF g.slots[i] \notin {"half", "full"} THEN g
    ELSE IF Active(g) = "x" /\ ~g.world.special
    THEN [g EXCEPT !.slots[i] = "armor",
                   !.shots[i] = [NoRecord EXCEPT !.kind = IF g.slots[i] = "half" THEN 8 ELSE 1]]
    ELSE [g EXCEPT !.slots[i] = "native"]

\* The lead of X3 meets a full shot and both become a cross.
Crossed(g, i, j) == RetireShot([g EXCEPT !.shots[i] = [NoRecord EXCEPT !.kind = 5]], j)
Orphaned(g, i) == g.shots[g.shots[i].parent].kind \notin {2, 3}

\* What happens to it in this frame: nothing, its end (it has left the
\* screen, its animation or its time is over), or its event.
ShotStep(g, i, see) ==
    LET kind == g.shots[i].kind
        others == {j \in Places \ {i} : g.shots[j].kind = 1}
    IN  CASE kind = 0 \/ see = "out" \/ ~Alive(g) -> RetireShot(g, i)
          [] kind = 3 /\ see = "event" /\ others # {} -> Crossed(g, i, Min(others))
          [] kind = 4 /\ Orphaned(g, i) /\ see = "event" /\ g.game = 3 -> RetireShot(g, i)
          [] kind = 4 /\ Orphaned(g, i) /\ ~(see = "event" /\ g.game = 3) ->
                [g EXCEPT !.shots[i] = [NoRecord EXCEPT !.kind = 6]]
          [] kind = 5 /\ see = "event" /\ ~g.shots[i].split ->
                AllocateShots([g EXCEPT !.shots[i].split = TRUE], 5, 6, 0)
          [] OTHER -> g

PartsShotTick(g, i, see) ==
    LET h == Taken(g, i) IN IF Owned(h, i) THEN ShotStep(h, i, see) ELSE h

-----------------------------------------------------------------------------
(* The frame *)

NewBody(act) == [act |-> act, ground |-> TRUE, prop |-> FALSE, gravity |-> TRUE, hp |-> MaxHealth]
NoWorld == [mode |-> "menu", busy |-> FALSE, paused |-> FALSE, low |-> FALSE,
            special |-> FALSE, cooling |-> FALSE, released |-> FALSE, cut |-> FALSE]
NewZero(start, modern) ==
    [active |-> start, modern |-> modern, phase |-> 0, tick |-> 0, height |-> 0, seeded |-> FALSE,
     hp |-> [c \in Hunters |-> 0], dash |-> 0, jumpUsed |-> FALSE, dashUsed |-> FALSE]
NoPad == [fire |-> "none", jump |-> FALSE, dash |-> "none", dir |-> "none"]

Want(w) == w \in wants
When(w, S, idle) == IF Want(w) THEN S ELSE {idle}
Press == {"none", "held", "pressed"}

PartsInit ==
    /\ wants \in PartWants
    /\ \E game \in {2, 3} \ {IF "x3" \in wants THEN 2 ELSE IF "x2" \in wants THEN 3 ELSE 0}, start \in Hunters :
          hunters = [game |-> game, world |-> NoWorld, body |-> NewBody("settle"),
                     zero |-> NewZero(start, "modern" \in wants), armor |-> NoArmor,
                     slots |-> [i \in Places |-> "free"], shots |-> [i \in Places |-> NoRecord],
                     count |-> 0]
    /\ turn = "frame" /\ pad = NoPad /\ kept = [c \in Hunters |-> 0]

\* In front of the scheduler; when the world is held the frame is over.
Frame(select, keys) ==
    /\ turn = "frame"
    /\ LET parts == PartsFrame(hunters, keys)
           swap == IF parts.held THEN parts ELSE SwapTick(parts.g, select)
       IN  hunters' = swap.g /\ turn' = IF swap.held THEN "frame" ELSE "player"
    /\ UNCHANGED <<pad, kept, wants>>

\* The hook in front of the guest's player.
Player(b, see) ==
    /\ turn = "player"
    /\ LET pre == PrePlayer(hunters, b, see)
           g == MovementTick(SlideTick(pre.g), pre.pad)
       IN  IF Staged(hunters) THEN hunters' = g /\ pad' = pre.pad
           ELSE hunters' = hunters /\ pad' = NoPad
    /\ kept' = IF Staged(hunters) THEN [kept EXCEPT ![Active(hunters)] = hunters'.body.hp] ELSE kept
    /\ turn' = "body" /\ UNCHANGED wants

\* External: where the guest's player may go from here.
BodyGoes(g, b) ==
    LET act == g.body.act
        dashOver == IF SlideHold(g) \/ g.armor.dash.ticks > 0 \/ g.zero.dash > 0 THEN {} ELSE {"settle", "fall"}
    IN  {act}
        \cup (IF act \in {"settle", "walk", "land"} THEN {"idle"} ELSE {})
        \cup (IF act \in {"idle", "settle", "walk", "land"}
              THEN (IF b.dir = "none" THEN {} ELSE {"walk"}) \cup (IF b.jump THEN {"jump"} ELSE {})
                   \cup (IF b.dash = "pressed" THEN {"dash"} ELSE {}) ELSE {})
        \cup (IF act = "jump" THEN {"fall"} ELSE {})
        \cup (IF act = "fall" /\ g.body.gravity THEN {"land", "wall"} ELSE {})
        \cup (IF act = "wall" THEN {"fall", "jump"} ELSE {})
        \cup (IF act = "dash" /\ b.jump /\ ~SlideHold(g) /\ g.body.ground THEN {"jump"} ELSE {})
        \cup (IF act = "dash" /\ (g.body.ground \/ g.body.prop) THEN dashOver ELSE {})
        \cup (IF act \in {"hurt", "script"} THEN {IF g.body.ground THEN "settle" ELSE "fall"} ELSE {})
Grounded(act, ground) ==
    IF act \in {"idle", "settle", "walk", "land"} THEN TRUE
    ELSE IF act \in {"jump", "fall", "wall"} THEN FALSE ELSE ground

\* A press fires a pellet, a charge released early a half or a full shot.
Fires(g, b) ==
    IF FreePlaces(g) = {} THEN {"free"}
    ELSE {"free"} \cup (IF Want("weapons") /\ b.fire = "pressed" THEN {"native"} ELSE {})
                  \cup (IF g.world.released THEN {"half", "full"} ELSE {})
GuestShot(g, what) ==
    IF what = "free" THEN g
    ELSE [g EXCEPT !.slots[Min(FreePlaces(g))] = what, !.count = @ + 1]

\* The guest's update of the player, and the hook behind it.
BodyMoves(act, what) ==
    /\ turn = "body"
    /\ IF Staged(hunters)
       THEN /\ act \in BodyGoes(hunters, pad) /\ what \in Fires(hunters, pad)
            /\ LET g == GuestShot(hunters, what)
                   h == [g EXCEPT !.body.act = act, !.body.ground = Grounded(act, @),
                                  !.world.released = FALSE]
               IN  hunters' = PartsPlayerEnd(MovementEnd(h))
       ELSE act = hunters.body.act /\ what = "free" /\ hunters' = hunters
    /\ turn' = "shots" /\ UNCHANGED <<pad, kept, wants>>

\* The guest's shots, one slot after the other.
ShotsMove(sees) ==
    /\ turn = "shots"
    /\ LET after[i \in 0 .. ShotSlots] ==
               IF i = 0 THEN hunters ELSE PartsShotTick(after[i - 1], i, sees[i])
       IN  hunters' = after[ShotSlots]
    /\ turn' = "stage" /\ UNCHANGED <<pad, kept, wants>>

-----------------------------------------------------------------------------
(* External: what else the guest does in a frame, one thing at a time.  At *)
(* its end the health of the active hunter is written down.                *)

StageDoes(g, hp) ==
    /\ turn = "stage" /\ turn' = "frame"
    /\ hunters' = HealthSync(g)
    /\ kept' = hp /\ UNCHANGED <<pad, wants>>
NowHas(hp) == [kept EXCEPT ![Active(hunters)] = hp]

NothingElse == StageDoes(hunters, kept)
CoolsDown == hunters.world.cooling /\ StageDoes([hunters EXCEPT !.world.cooling = FALSE], kept)

\* A hit: the armor sees it first, if the parts are of the active hunter.
Hurt(raw, projectile) ==
    /\ Want("hits") /\ Unheld(hunters) /\ hunters.armor.giga = 0
    /\ LET lost == IF Active(hunters) = "x" THEN Damage(hunters, raw) ELSE raw
           hp == IF hunters.body.hp > lost THEN hunters.body.hp - lost ELSE 0
       IN  StageDoes([TakeDamage(hunters, raw, projectile) EXCEPT !.body.hp = hp, !.body.act = "hurt"],
                     NowHas(hp))
Heals ==
    /\ Want("hits") /\ Unheld(hunters) /\ hunters.body.hp < MaxHealth
    /\ StageDoes([hunters EXCEPT !.body.hp = @ + 1], NowHas(hunters.body.hp + 1))
\* A shot hits something and is gone.
ShotContact(i) ==
    /\ Want("contacts") /\ hunters.slots[i] # "free"
    /\ StageDoes([hunters EXCEPT !.slots[i] = "free", !.count = Less(@)], kept)

\* A stage or a checkpoint begins: the guest clears its objects and both
\* hunters have full health.
Restart ==
    /\ hunters.world.mode = "menu" \/ ~Alive(hunters)
    /\ StageDoes([HealthRespawn(hunters) EXCEPT
                    !.world = [NoWorld EXCEPT !.mode = "entry"], !.body = NewBody("settle"),
                    !.slots = [i \in Places |-> "free"], !.count = 0],
                 [c \in Hunters |-> MaxHealth])
ModeGoes(from, to) ==
    /\ hunters.world.mode = from /\ Alive(hunters)
    /\ StageDoes([hunters EXCEPT !.world.mode = to], kept)
Begins == ModeGoes("entry", "play")
Leaves == Want("scenes") /\ ModeGoes("play", "late")
Quits ==
    /\ Want("scenes") /\ hunters.world.mode = "late" /\ Alive(hunters)
    /\ StageDoes([hunters EXCEPT !.world.mode = "menu", !.slots = [i \in Places |-> "free"],
                                 !.count = 0], kept)
Doors ==
    /\ Want("scenes") /\ hunters.world.mode = "play"
    /\ StageDoes([hunters EXCEPT !.world.busy = ~@], kept)
Pauses ==
    /\ Want("scenes") /\ hunters.world.mode = "play" /\ ~hunters.world.busy
    /\ StageDoes([hunters EXCEPT !.world.paused = ~@], kept)
Scripted ==
    /\ Want("scenes") /\ hunters.body.act \in {"idle", "walk", "fall"}
    /\ StageDoes([hunters EXCEPT !.body.act = "script"], kept)
Passage ==
    /\ Want("low") /\ StageDoes([hunters EXCEPT !.world.low = ~@], kept)
Selects ==
    /\ Want("weapons") /\ hunters.world.mode = "play"
    /\ StageDoes([hunters EXCEPT !.world.special = ~@], kept)
HadoukenAward ==
    /\ Want("gold") /\ hunters.game = 3 /\ Unheld(hunters) /\ ~hunters.armor.gold
    /\ StageDoes([hunters EXCEPT !.armor.gold = TRUE, !.armor.hyperEnergy = FullMeter], kept)

Sees == [grows : When("charge", BOOLEAN, FALSE), step : When("fire", {"wait", "fire", "end"}, "wait"),
         appeared : When("hits", BOOLEAN, FALSE)]
Pads == [fire : When("fire", Press, "none"), jump : When("jump", BOOLEAN, FALSE),
         dash : When("dash", Press, "none"),
         dir : When("jump", {"none", "side"}, "none") \cup When("dash", {"none", "up"}, "none")]

PartsNext ==
    \/ \E select \in When("exchange", BOOLEAN, FALSE),
          keys \in {"none", "other"} \cup When("keys", {"up", "down"}, "none")
                               \cup When("crash", {"down"}, "none") : Frame(select, keys)
    \/ \E b \in Pads, see \in Sees : Player(b, see)
    \/ \E act \in Free \cup {"hurt", "script"}, what \in {"free", "native", "half", "full"} :
          BodyMoves(act, what)
    \/ \E i \in Places, see \in When("fire", {"flies", "out", "event"}, "flies") :
          ShotsMove([j \in Places |-> IF j = i THEN see ELSE "flies"])
    \/ NothingElse \/ CoolsDown \/ Heals
    \/ \E raw \in {1, 4}, projectile \in BOOLEAN : Hurt(raw, projectile)
    \/ \E i \in Places : ShotContact(i)
    \/ Restart \/ Begins \/ Leaves \/ Quits \/ Doors \/ Pauses \/ Scripted \/ Passage
    \/ Selects \/ HadoukenAward

PartsSpec == PartsInit /\ [][PartsNext]_partVars

-----------------------------------------------------------------------------
(* What the hunters owe the guest *)

PoolsKept ==
    hunters.zero.seeded =>
        /\ hunters.body.hp = kept[Active(hunters)]
        /\ hunters.zero.hp[Other(hunters)] = kept[Other(hunters)]

PartsGiveBack ==
    LET g == hunters
        flying == g.armor.giga > 0 \/ (g.armor.dash.ticks > 0 /\ g.armor.dash.up)
    IN  /\ g.count = Cardinality({i \in Places : g.slots[i] # "free"})
        /\ turn = "frame" /\ g.world.mode = "play" /\ Alive(g) => (g.body.gravity \/ flying \/ g.world.cut)
        /\ turn \in {"shots", "stage", "frame"} => ~g.body.prop
===============================================================================

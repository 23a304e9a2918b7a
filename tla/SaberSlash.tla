------------------------------- MODULE SaberSlash -------------------------------
(***************************************************************************)
(* Saber Zero's attacks (saber/mmx_saber_*.c) beside the X3 buster and      *)
(* finisher of mmx_zero.c: swings and their hitboxes, the finisher window,  *)
(* the slot reserved for a wave, waves, and the charge that is held through *)
(* a swing.  All of them share the eight projectile slots of the guest.     *)
(*                                                                          *)
(* A frame is: the hook at $81:815C (pre_player, then MmxZeroPlayerTick),   *)
(* the native player with the hook at $81:8165 (player_end) behind it, the  *)
(* projectiles, and the collisions; pc orders them.  The hooks are operators*)
(* on a record of the state they change.  The body's action $0BAA and the   *)
(* game modes are one variable, act; positions, facing, damage amounts, hit *)
(* priority and the Modern behavior are left out.                           *)
(***************************************************************************)
EXTENDS Naturals, FiniteSets

CONSTANTS Slots,        \* projectile slots $1228-$1427, as 1 .. 8
          Enemies,      \* enemy slots
          Stages,
          Timing,       \* kSaberAttacks: startup, active and total ticks
          ChargeFull,   \* the charge of tier 8 (141)
          ChargeCap,    \* charge_cap (200), below the charge of tier 10
          WindowFrames, \* window_frames (27)
          SlashWave,    \* the age at which a finisher throws its wave (7)
          SlashEnd,     \* the last age of a finisher (44)
          Lifetime, PulseFrames, MaxPulses,    \* of a wave (96, 4, 3)
          Actions,      \* the values of act that may occur
          MaxShots,     \* a bound on the small and special shots at once
          Loads,        \* a state may be loaded while a slot is tagged
          SwitchInSlash \* the weapon may change under a young finisher

Kinds == DOMAIN Timing
AllKinds == {"ground1", "ground2", "ground3", "air", "wall", "dash"}

\* In "away" neither Saber nor Zero plays (a menu, a ride armor, X); in
\* "shut" only Zero does.  "odd" actions ($28, $2A, $40) can fire natively but
\* are not playable for MmxZeroPlayerTick; "stun" cannot fire.
AllActions == {"stand", "dash", "air", "wall", "odd", "hurt", "stun",
               "dying", "gone", "away", "shut"}
Playable == {"stand", "dash", "air", "wall"}

ASSUME SaberAssumption ==
    /\ Slots \subseteq Nat \ {0} /\ IsFiniteSet(Slots)
    /\ 0 \notin Enemies /\ Stages # {}
    /\ Kinds \subseteq AllKinds /\ {"ground1", "air", "wall", "dash"} \subseteq Kinds
    /\ \A k \in Kinds : /\ Timing[k].startup \in Nat /\ Timing[k].active \in Nat
                        /\ Timing[k].total \in Nat
                        /\ Timing[k].startup + Timing[k].active <= Timing[k].total
    /\ ChargeFull \in Nat \ {0} /\ ChargeCap \in Nat /\ ChargeFull <= ChargeCap
    /\ WindowFrames \in Nat \ {0} /\ WindowFrames < ChargeFull /\ SlashWave \in Nat /\ SlashEnd \in Nat
    /\ 1 < SlashWave /\ SlashWave < SlashEnd
    /\ Lifetime \in Nat \ {0} /\ PulseFrames \in Nat \ {0} /\ MaxPulses \in Nat \ {0}
    /\ "stand" \in Actions /\ Actions \subseteq AllActions
    /\ MaxShots \in Nat /\ Loads \in BOOLEAN /\ SwitchInSlash \in BOOLEAN

VARIABLES
    \* guest
    act, pool,     \* pool[d] is what byte 0, byte 1 and the tag say of a slot
    wave,          \* a wave's own bytes ($2A-$35, $3B-$3D of its slot)
    count,         \* $0BDD
    stage, special,
    \* host
    swing,         \* MmxSaberAttackState
    obs,           \* native_observation
    ground,        \* previous_grounded
    combo,         \* MmxSaberComboState
    zero,          \* MmxZeroState
    latch,         \* release_pending
    seen,          \* observed_stage
    x, y,          \* the buttons of the last frame
    pc

vars == <<act, pool, wave, count, stage, special, swing, obs, ground,
          combo, zero, latch, seen, x, y, pc>>

None == 0                   \* no slot, no enemy, no object
Grounded(a) == a \in {"stand", "dash", "odd", "stun"}
CanFire(a) == a \in Playable \cup {"odd"}        \* MmxSaberFrameNativeFireAction
Locked(a) == a \in {"hurt", "stun"}
Dead(a) == a \in {"dying", "gone"}               \* zero_dead_or_reset
FrameContext(a) == a \notin {"gone", "away", "shut"}     \* zero_frame_context
Less(a, b) == IF b > a THEN 0 ELSE a - b

\* What a slot can be; a held slot has byte 0 clear and byte 1 set, so that
\* no allocator takes it.  Of the shots only those of a burst matter.
Things == {"free", "held", "wave", "swing", "slash", "burst", "shot"}
Live(thing) == thing \notin {"free", "held"}
NoWave == [stage |-> 0, birth |-> FALSE, age |-> 0, cut |-> None, pulses |-> 0,
           wait |-> 0]
NewWave(s) == [NoWave EXCEPT !.stage = s]

Idle == [kind |-> "none", tick |-> 0, buffer |-> FALSE, slot |-> None,
         own |-> FALSE, hits |-> {}]
NoObs == [kind |-> "none", phase |-> "idle", act |-> "none"]
NoPre == [valid |-> FALSE, live |-> {}, burst |-> 0]
NoCombo == [window |-> 0, reserved |-> None, request |-> FALSE, sent |-> FALSE,
            pre |-> NoPre]
NoZero == [slash |-> 0, slot |-> None, charge |-> 0, combo |-> FALSE, burst |-> 0,
           fired |-> FALSE, over |-> FALSE, shots |-> {}]

Phase(s) == IF s.kind = "none" THEN "idle"
            ELSE IF s.tick < Timing[s.kind].startup THEN "startup"
            ELSE IF s.tick < Timing[s.kind].startup + Timing[s.kind].active THEN "active"
            ELSE "recovery"

\* What the hooks change.
Frame == [act |-> act, pool |-> pool, wave |-> wave, count |-> count, swing |-> swing,
          obs |-> obs, ground |-> ground, combo |-> combo, zero |-> zero,
          latch |-> latch, seen |-> seen]
Becomes(f) ==
    /\ act' = f.act /\ pool' = f.pool /\ wave' = f.wave /\ count' = f.count
    /\ swing' = f.swing /\ obs' = f.obs /\ ground' = f.ground /\ combo' = f.combo
    /\ zero' = f.zero /\ latch' = f.latch /\ seen' = f.seen

-----------------------------------------------------------------------------
\* Slots

Holding(f, things) == {d \in Slots : f.pool[d] \in things}
First(S) == CHOOSE d \in S : \A e \in S : d <= e

\* Mutant for SlotsAccounted: a held slot is counted down too.
EmptiedCountsHeld(f, D) ==
    [f EXCEPT !.pool = [d \in Slots |-> IF d \in D THEN "free" ELSE f.pool[d]],
              !.wave = [d \in Slots |-> IF d \in D THEN NoWave ELSE f.wave[d]],
              !.count = Less(@, Cardinality(D))]

Emptied(f, D) ==
    [f EXCEPT !.pool = [d \in Slots |-> IF d \in D THEN "free" ELSE f.pool[d]],
              !.wave = [d \in Slots |-> IF d \in D THEN NoWave ELSE f.wave[d]],
              !.count = Less(@, Cardinality({d \in D : Live(f.pool[d])}))]
Filled(f, d, thing, w) ==
    [f EXCEPT !.pool[d] = thing, !.wave[d] = w, !.count = @ + 1]

-----------------------------------------------------------------------------
\* Swings (mmx_saber_attack.c)

\* The one way out of a swing: every slot with the swing tag is retired.
Exit(f) == [Emptied(f, Holding(f, {"swing"})) EXCEPT !.swing = Idle, !.obs = NoObs]

ResetAttack(f) == [Exit(f) EXCEPT !.ground = Grounded(f.act)]

\* start_attack: a running swing's slot is left to RuntimeTick.
Start(f, kind) ==
    [f EXCEPT !.swing = [Idle EXCEPT !.kind = kind, !.slot = f.swing.slot]]

NextGround == [ground1 |-> "ground2", ground2 |-> "ground3"]
ChainOpen(kind) == Timing[kind].startup + Timing[kind].active

\* A ground swing is followed by the next one at a press in its chain window,
\* which is the rest of it, or at the window's start if a press was buffered.
Chains(s, tick, pressed) ==
    /\ s.kind \in DOMAIN NextGround /\ NextGround[s.kind] \in Kinds
    /\ \/ pressed /\ tick >= ChainOpen(s.kind)
       \/ s.buffer /\ tick = ChainOpen(s.kind)
Buffers(s, tick, pressed) ==
    /\ s.kind \in DOMAIN NextGround /\ pressed
    /\ tick \in Timing[s.kind].startup .. ChainOpen(s.kind) - 1

OpeningKind(a) == CASE a = "wall" -> "wall" [] ~Grounded(a) -> "air"
                    [] a = "dash" -> "dash" [] OTHER -> "ground1"

Step(f, pressed) ==
    LET s == f.swing  tick == s.tick + 1 IN
    IF ~CanFire(f.act) THEN IF s # Idle THEN Exit(f) ELSE f
    ELSE IF s.kind = "none" THEN IF pressed THEN Start(f, OpeningKind(f.act)) ELSE f
    ELSE IF (s.kind = "dash" /\ ~Grounded(f.act)) \/ tick >= Timing[s.kind].total THEN Exit(f)
    ELSE IF Chains(s, tick, pressed) THEN Start(f, NextGround[s.kind])
    ELSE [f EXCEPT !.swing.tick = tick, !.swing.buffer = @ \/ Buffers(s, tick, pressed)]

CurrentTagged(f) == f.swing.slot # None /\ f.pool[f.swing.slot] = "swing"
Release(f) ==
    [(IF CurrentTagged(f) THEN Emptied(f, {f.swing.slot}) ELSE f) EXCEPT
        !.swing.slot = None, !.swing.own = FALSE, !.swing.hits = {}]
Allocate(f) ==
    LET d == First(Holding(f, {"free"})) IN
    [Filled(f, d, "swing", NoWave) EXCEPT !.swing.slot = d, !.swing.own = TRUE, !.swing.hits = {}]

\* The hitbox exists while the swing is active, and belongs to this swing.
RuntimeTick(f) ==
    IF Phase(f.swing) # "active"
    THEN IF f.swing.slot # None THEN Release(f) ELSE f
    ELSE LET g == IF f.swing.slot # None /\ ~f.swing.own THEN Release(f) ELSE f IN
         IF g.swing.slot = None
         THEN IF Holding(g, {"free"}) = {} THEN Exit(g) ELSE Allocate(g)
         ELSE IF CurrentTagged(g) THEN g ELSE Exit(g)

\* The native player has left the action that carries the swing.
JumpAccepted(f) == Grounded(f.obs.act) /\ ~Grounded(f.act)
Enters(f, a) == f.act = a /\ f.obs.act # a
MovementAccepted(f) ==
    /\ f.obs.phase \in {"active", "recovery"}
    /\ CASE f.obs.kind \in {"ground1", "ground2", "ground3"} -> JumpAccepted(f) \/ Enters(f, "dash")
         [] f.obs.kind = "air" -> Enters(f, "wall") \/ Enters(f, "dash")
         [] f.obs.kind = "wall" -> f.obs.act = "wall" /\ f.act # "wall"
         [] f.obs.kind = "dash" -> JumpAccepted(f)

\* Mutant for SwingFitsBody: landing does not end an air swing.
AttackEndInAir(f) ==
    LET g == [f EXCEPT !.obs = NoObs, !.ground = Grounded(f.act)] IN
    IF \/ MovementAccepted(f) /\ f.swing.kind # "none"
       \/ f.swing.kind = "wall" /\ f.act # "wall"
    THEN Exit(g) ELSE g

AttackEnd(f) ==
    LET s == f.swing
        g == [f EXCEPT !.obs = NoObs, !.ground = Grounded(f.act)]
        landed == ~f.ground /\ Grounded(f.act) IN
    IF \/ landed /\ s.kind = "air"
       \/ MovementAccepted(f) /\ s.kind # "none"
       \/ s.kind = "wall" /\ f.act # "wall"
    THEN Exit(g) ELSE g

-----------------------------------------------------------------------------
\* The finisher's window and its reserved slot (mmx_saber_combo.c)

\* The marked slots that hold an object of class 3 other than the finisher.
LiveBurst(f) == {d \in f.zero.shots : f.pool[d] \in {"burst", "swing", "wave"}}

\* Releases the slot unless something has taken it.
ReleaseReservation(f) ==
    LET d == f.combo.reserved IN
    [(IF d # None /\ f.pool[d] = "held" THEN Emptied(f, {d}) ELSE f) EXCEPT
        !.combo.reserved = None]
ComboCancel(f) == [ReleaseReservation(f) EXCEPT !.combo = NoCombo]

\* Mutant for SwingSurvives: the wave's slot may be the last one.
CanReserveLast(f) == Holding(f, {"free"}) # {}

\* The wave's slot is taken only if another remains for the finisher itself.
CanReserve(f) == Cardinality(Holding(f, {"free"})) >= 2
Reserve(f) ==
    IF CanReserve(f)
    THEN LET d == First(Holding(f, {"free"})) IN
         [f EXCEPT !.pool[d] = "held", !.wave[d] = NewWave(stage),
                   !.combo.reserved = d, !.combo.request = TRUE]
    ELSE f

Claims(f, pressed) == f.combo.window > 0 /\ pressed /\ f.zero.slash = 0
ComboPre(f, pressed) ==
    LET g == [f EXCEPT !.combo.pre = [valid |-> TRUE, live |-> LiveBurst(f),
                                      burst |-> f.zero.burst],
                       !.combo.window = IF Claims(f, pressed) THEN 0 ELSE Less(@, 1)] IN
    IF Claims(f, pressed) /\ ~f.combo.request /\ ~f.combo.sent THEN Reserve(g) ELSE g

\* Publish: the held slot becomes a wave, which stands still for a frame.
Publish(f) ==
    LET d == f.combo.reserved
        g == [f EXCEPT !.combo.reserved = None] IN
    IF f.pool[d] = "held" THEN Filled(g, d, "wave", [NewWave(stage) EXCEPT !.birth = TRUE])
    ELSE g

OpensWindow(f) ==
    /\ f.combo.pre.valid /\ f.combo.pre.burst = 2 /\ LiveBurst(f) \ f.combo.pre.live # {}
    /\ f.zero.slash = 0 /\ f.combo.window = 0
Resolve(f) ==
    IF f.combo.sent
    THEN IF f.zero.slash = 1 THEN [f EXCEPT !.combo.sent = FALSE]
         ELSE IF f.zero.slash = 0 THEN ReleaseReservation([f EXCEPT !.combo.sent = FALSE])
         ELSE f
    ELSE IF f.combo.request THEN ReleaseReservation([f EXCEPT !.combo.request = FALSE])
    ELSE f
ComboEnd(f) ==
    LET g == [f EXCEPT !.combo.window = IF OpensWindow(f) THEN WindowFrames ELSE @,
                       !.combo.pre = NoPre]
        h == IF g.zero.slash = SlashWave /\ g.combo.reserved # None THEN Publish(g) ELSE g
    IN Resolve(h)

-----------------------------------------------------------------------------
\* Zero's buster and finisher (mmx_zero.c)

\* MmxZeroCancel
ZeroCancel(f) ==
    LET d == f.zero.slot IN
    [(IF d # None /\ f.pool[d] = "slash" THEN Emptied(f, {d}) ELSE f) EXCEPT !.zero = NoZero]

\* MmxZeroStartSlash and the start of a burst.
StartSlash(f) ==
    IF Holding(f, {"free"}) = {} THEN f
    ELSE LET d == First(Holding(f, {"free"})) IN
         [Filled(f, d, "slash", NoWave) EXCEPT
            !.zero.combo = FALSE, !.zero.slash = 1, !.zero.slot = d]

StartBurst(f, which) ==
    [f EXCEPT !.zero.burst = which, !.zero.fired = FALSE, !.zero.over = FALSE]

\* emit_burst: with no free slot the shot is lost.
EmitBurst(f) ==
    LET d == First(Holding(f, {"free"})) IN
    IF Holding(f, {"free"}) = {} THEN f
    ELSE [Filled(f, d, "burst", NoWave) EXCEPT !.zero.shots = @ \cup {d}]

\* advance_burst: the animation's data says when it fires, once, and when it
\* ends; due is that this is such a frame.
AdvanceBurst(f, due) ==
    IF f.zero.burst = 0 \/ ~due THEN f
    ELSE IF f.zero.fired THEN [f EXCEPT !.zero.over = TRUE]
    ELSE [EmitBurst(f) EXCEPT !.zero.fired = TRUE]

\* The charge grows while fire is held; its release fires the first burst if
\* it is full and a slot is free.
Charge(f, intent, ready) ==
    IF intent.held THEN [f EXCEPT !.zero.charge = IF @ < ChargeCap THEN @ + 1 ELSE @]
    ELSE IF ~intent.released THEN f
    ELSE IF f.zero.charge >= ChargeFull /\ ready /\ Holding(f, {"free"}) # {}
    THEN [StartBurst(f, 1) EXCEPT !.zero.combo = TRUE, !.zero.charge = 0]
    ELSE [f EXCEPT !.zero.charge = 0]

\* A hit keeps a charge that nothing else has taken up.
KeepsCharge(f) ==
    /\ f.act = "hurt" /\ ~special /\ f.zero.charge > 0
    /\ ~f.zero.combo /\ f.zero.burst = 0 /\ f.zero.slash = 0

\* track_burst_shots, burst_end, and the finisher that Saber requests.
Requested(f) == f.zero.slash = 0 /\ f.combo.request
Tracked(f) ==
    LET ended == f.zero.over \/ Requested(f)
        g == [f EXCEPT !.zero.shots = LiveBurst(f),
                       !.zero.over = FALSE,
                       !.zero.burst = IF ended THEN 0 ELSE @] IN
    IF Requested(f)
    THEN StartSlash([g EXCEPT !.combo.request = FALSE, !.combo.sent = TRUE])
    ELSE g

\* ready: no shot is on its way out of the buster ($1F0D).
Attack(f, intent, ready) ==
    IF f.zero.burst = 0 /\ f.zero.combo /\ intent.pressed
    THEN IF ready /\ Holding(f, {"free"}) # {}
         THEN [StartBurst(f, 2) EXCEPT !.zero.combo = FALSE] ELSE f
    ELSE IF f.zero.burst = 0 /\ ~f.zero.combo THEN Charge(f, intent, ready)
    ELSE f

\* A burst or a finisher on the ground stands still.
Planted(f) ==
    IF (f.zero.burst # 0 \/ f.zero.slash # 0) /\ Grounded(f.act)
    THEN [f EXCEPT !.act = "stand"] ELSE f

ZeroTick(f, intent, ready, due) ==
    IF KeepsCharge(f) THEN f
    ELSE IF f.act \notin Playable \cup {"shut"} \/ special THEN ZeroCancel(f)
    ELSE LET g == Tracked(f)
             aged == [g EXCEPT !.zero.slash = @ + 1] IN
         IF f.zero.slash = 0
         THEN Planted(AdvanceBurst(Attack(g, intent, ready), due))
         ELSE IF aged.zero.slash > SlashEnd THEN ZeroCancel(g)
         ELSE Planted(AdvanceBurst(aged, due))

-----------------------------------------------------------------------------
\* The pad (mmx_saber_input.c, mmx_saber_frame.c)

Slashing(f) == f.swing.kind # "none" \/ f.zero.slash # 0
Intent(h, p, r) == [held |-> h, pressed |-> p, released |-> r]

\* The buster listens to X only from a press of X to the end of its release.
ChargeOwned(f, xHeld) == ~special /\ (xHeld \/ x \/ f.latch)

\* Mutant for SwingLeavesCharge: a release is not held back by the attack.
LegacyIntentReleases(f, xHeld) ==
    IF Dead(f.act) \/ Slashing(f) THEN Intent(xHeld, FALSE, ~xHeld)
    ELSE IF ~ChargeOwned(f, xHeld) \/ Locked(f.act) THEN Intent(xHeld, FALSE, ~xHeld)
    ELSE Intent(xHeld, xHeld /\ ~x /\ ~f.latch, ~xHeld)

\* legacy_intent: while a swing owns the action X goes on charging, and its
\* release waits in the latch.
LegacyIntent(f, xHeld) ==
    LET pressed == xHeld /\ ~x IN
    IF Dead(f.act) THEN Intent(FALSE, FALSE, FALSE)
    ELSE IF ~ChargeOwned(f, xHeld)
    THEN IF Slashing(f) THEN Intent(FALSE, FALSE, TRUE)
         ELSE Intent(xHeld, pressed /\ ~Locked(f.act), ~xHeld)
    ELSE IF Slashing(f) THEN Intent(TRUE, FALSE, FALSE)
    ELSE IF Locked(f.act) THEN Intent(xHeld, FALSE, ~xHeld)
    ELSE Intent(xHeld, pressed /\ ~f.latch, ~xHeld)

\* Mutant for SwingLeavesCharge: a release during an attack is not latched.
NextLatchForgets(f, xHeld) ==
    IF Dead(f.act) THEN FALSE
    ELSE f.latch /\ (Locked(f.act) \/ Slashing(f))

NextLatch(f, xHeld) ==
    IF Dead(f.act) THEN FALSE
    ELSE IF ~ChargeOwned(f, xHeld) THEN f.latch
    ELSE IF Slashing(f)
    THEN ~xHeld \/ (f.latch /\ (x \/ Locked(f.act)))
    ELSE f.latch /\ Locked(f.act)

\* MmxSaberWaveRuntimeObserveStage
ObserveStage(f) ==
    LET stale == {d \in Holding(f, {"held", "wave"}) : f.wave[d].stage # stage}
        g == [Emptied(f, stale) EXCEPT !.seen = stage] IN
    IF stale # {} \/ f.seen # stage THEN ComboCancel(g) ELSE g

\* pre_player: the finisher has the press first, then the swing; the hitbox
\* follows; the pad is computed from what they are now.
PrePlayer(f, yHeld) ==
    LET g == ObserveStage(f)
        pressed == yHeld /\ ~y
        observed == [g EXCEPT !.obs = [kind |-> g.swing.kind, phase |-> Phase(g.swing),
                                       act |-> g.act]]
        claimed == Claims(observed, pressed /\ g.act # "stun")
        c == ComboPre(observed, pressed /\ g.act # "stun")
        h == IF Locked(g.act) \/ Dead(g.act) THEN Exit(c) ELSE c IN
    IF ~FrameContext(f.act) THEN [ResetAttack(ComboCancel(g)) EXCEPT !.latch = FALSE]
    ELSE RuntimeTick(Step(h, pressed /\ ~claimed))

\* Only then does it matter whether the buster is ready or a frame is due.
MayFire == zero.burst # 0 \/ zero.combo \/ zero.charge >= ChargeFull

\* The hook at $81:815C.  Outside Saber's context the buster is on Y.
PlayerHook(xHeld, yHeld) ==
    LET f == PrePlayer(Frame, yHeld)
        intent == IF FrameContext(act) THEN LegacyIntent(f, xHeld)
                  ELSE Intent(yHeld, yHeld /\ ~y, ~yHeld)
        g == IF FrameContext(act) THEN [f EXCEPT !.latch = NextLatch(f, xHeld)] ELSE f IN
    /\ pc = "player" /\ pc' = "native"
    /\ \E ready, due \in (IF MayFire THEN BOOLEAN ELSE {FALSE}) :
            Becomes(ZeroTick(g, intent, ready, due))
    /\ x' = xHeld /\ y' = yHeld
    /\ UNCHANGED <<stage, special>>

-----------------------------------------------------------------------------
\* Waves and collisions (mmx_saber_wave_runtime.c, mmx_saber_attack.c)

\* Mutant for SlotsAccounted: a wave does not look at its stage.
SpentAnyStage(d, lost) ==
    \/ pool[d] = "swing" /\ ~(swing.slot = d /\ Phase(swing) = "active")
    \/ pool[d] = "slash" /\ ~(zero.slot = d /\ zero.slash # 0)
    \/ pool[d] = "wave" /\ (wave[d].age + 1 >= Lifetime \/ d \in lost)

\* The slots that a weapon tick retires; lost are the waves that have left the
\* screen, or whose target no longer is the enemy they cut.
Spent(d, lost) ==
    LET w == wave[d]  age == w.age + 1 IN
    \/ pool[d] = "swing" /\ ~(swing.slot = d /\ Phase(swing) = "active")
    \/ pool[d] = "slash" /\ ~(zero.slot = d /\ zero.slash # 0)
    \/ pool[d] = "wave" /\ \/ w.stage # stage \/ w.age >= Lifetime \/ d \in lost
                           \/ ~w.birth /\ age >= Lifetime
                           \/ ~w.birth /\ w.cut # None /\ w.pulses >= MaxPulses
Ticked(w) == IF w.birth THEN [w EXCEPT !.birth = FALSE]
             ELSE [w EXCEPT !.age = @ + 1, !.wait = Less(@, 1)]

\* MmxZeroWeaponTick and weapon_tick of every projectile.
Projectiles(lost) ==
    LET waves == Holding(Frame, {"wave"})
        spent == {d \in Slots : Spent(d, lost)}
        f == [Frame EXCEPT !.wave = [d \in Slots |-> IF d \in waves THEN Ticked(wave[d]) ELSE wave[d]]]
        g == Emptied(f, spent) IN
    /\ pc = "projectiles" /\ pc' = "player"
    /\ Becomes(IF swing.slot \in spent THEN Exit(g) ELSE g)
    /\ UNCHANGED <<stage, special, x, y>>

\* saber_attack_damage_core: a swing hits an enemy once.
SwingHit(e) ==
    /\ pc = "player"
    /\ CurrentTagged(Frame) /\ Phase(swing) = "active" /\ e \notin swing.hits
    /\ swing' = [swing EXCEPT !.hits = @ \cup {e}]
    /\ UNCHANGED <<act, pool, wave, count, stage, special, obs, ground, combo,
                   zero, latch, seen, x, y, pc>>

\* MmxSaberWaveRuntimeDamage: the first contact chooses the target; each
\* later pulse waits, and the last one, or a target that has been replaced by
\* another enemy in its slot, retires the wave.
WaveHit(d, e) ==
    LET w == wave[d]
        pulse == [w EXCEPT !.cut = e, !.pulses = @ + 1, !.wait = PulseFrames] IN
    /\ pc = "player" /\ pool[d] = "wave" /\ w.wait = 0 /\ w.cut \in {None, e}
    /\ \/ (w.cut = None \/ w.pulses + 1 < MaxPulses) /\ Becomes([Frame EXCEPT !.wave[d] = pulse])
       \/ w.cut # None /\ Becomes(Emptied(Frame, {d}))
    /\ UNCHANGED <<stage, special, x, y, pc>>

\* A response with bit 7 reflects the wave.
WaveReflected(d) ==
    /\ pc = "player" /\ pool[d] = "wave" /\ wave[d].wait = 0
    /\ Becomes(Emptied(Frame, {d}))
    /\ UNCHANGED <<stage, special, x, y, pc>>

-----------------------------------------------------------------------------
\* The rest of the guest

\* The native player moves to the action a and player_end follows it.  A
\* swing's startup withholds the press of dash.
Follows(a) == CASE a \in Playable \cup {"odd", "shut"} -> AllActions
                [] Locked(a) -> AllActions \ {"dash", "wall", "odd", "shut"}
                [] a = "dying" -> {"dying", "gone"}
                [] a = "gone" -> {"gone", "away"}
                [] a = "away" -> {"away", "stand", "air"}
PlayerEnd(f) ==
    IF Dead(f.act) THEN Exit(Emptied(ComboCancel(f), Holding(f, {"held", "wave"})))
    ELSE IF Locked(f.act) \/ ~FrameContext(f.act) THEN Exit(ComboCancel(f))
    ELSE AttackEnd(ComboEnd(f))
NativePlayer(a) ==
    /\ pc = "native" /\ pc' = "projectiles"
    /\ a \in Actions \cap Follows(act)
    /\ (a = "dash" /\ act # "dash") => (obs.phase # "startup" /\ Phase(swing) # "startup")
    /\ Becomes(PlayerEnd([Frame EXCEPT !.act = a]))
    /\ UNCHANGED <<stage, special, x, y>>

\* A small or special shot takes a free slot, a shot ends.
NativeShot ==
    /\ Cardinality(Holding(Frame, {"shot"})) < MaxShots
    /\ pc = "native" /\ act \in Playable /\ Holding(Frame, {"free"}) # {}
    /\ Becomes(Filled(Frame, First(Holding(Frame, {"free"})), "shot", NoWave))
    /\ UNCHANGED <<stage, special, x, y, pc>>
ShotEnds(d) ==
    /\ pc = "player" /\ pool[d] \in {"shot", "burst"}
    /\ Becomes(Emptied(Frame, {d}))
    /\ UNCHANGED <<stage, special, x, y, pc>>

\* Another weapon is selected ($0BDB).
SwitchWeapon ==
    /\ pc = "native" /\ (SwitchInSlash \/ combo.reserved = None)
    /\ special' = ~special
    /\ UNCHANGED <<act, pool, wave, count, stage, swing, obs, ground, combo,
                   zero, latch, seen, x, y, pc>>

\* A new stage, with what is left in the pool; and the start of a stage or a
\* checkpoint, where MmxZeroHealthRespawn resets Saber (state_reset).
NewStage ==
    /\ pc = "native" /\ act = "away" /\ stage' \in Stages \ {stage}
    /\ UNCHANGED <<act, pool, wave, count, special, swing, obs, ground, combo,
                   zero, latch, seen, x, y, pc>>
Reset(f) ==
    [Emptied(ComboCancel(ResetAttack(f)), Holding(f, {"held", "wave"})) EXCEPT !.latch = FALSE]
Respawn ==
    /\ pc = "native" /\ act = "away"
    /\ Becomes(Reset(Frame)) /\ x' = FALSE /\ y' = FALSE
    /\ UNCHANGED <<stage, special, pc>>

\* A state saved at this frame's end is loaded: the guest and every host field
\* return, but MmxZeroSetState first resets Saber, which retires the tagged
\* slots of the guest just restored.
LoadState ==
    LET tagged == Holding(Frame, {"swing", "held", "wave"}) IN
    /\ pc = "player" /\ (Loads \/ tagged = {})
    /\ Becomes(Emptied(Frame, tagged))
    /\ UNCHANGED <<stage, special, x, y, pc>>

Init ==
    /\ act = "stand" /\ pool = [d \in Slots |-> "free"] /\ wave = [d \in Slots |-> NoWave]
    /\ count = 0 /\ stage \in Stages /\ special = FALSE
    /\ swing = Idle /\ obs = NoObs /\ ground = TRUE /\ combo = NoCombo /\ zero = NoZero
    /\ latch = FALSE /\ seen = stage /\ x = FALSE /\ y = FALSE /\ pc = "player"

Next ==
    \/ \E xHeld, yHeld \in BOOLEAN : PlayerHook(xHeld, yHeld)
    \/ \E a \in Actions : NativePlayer(a)
    \/ \E lost \in SUBSET {d \in Slots : pool[d] = "wave"} : Projectiles(lost)
    \/ \E e \in Enemies : SwingHit(e)
    \/ \E d \in Slots, e \in Enemies : WaveHit(d, e)
    \/ \E d \in Slots : WaveReflected(d) \/ ShotEnds(d)
    \/ NativeShot \/ SwitchWeapon \/ NewStage \/ Respawn \/ LoadState

Spec == Init /\ [][Next]_vars

-----------------------------------------------------------------------------
\* Correctness

AtRest == pc # "native"          \* no frame of the player is under way

\* The state stays within its types: a slot number is a slot's, and every
\* counter is below its limit.
TypeOK ==
    /\ act \in AllActions /\ pool \in [Slots -> Things] /\ count \in 0 .. Cardinality(Slots)
    /\ DOMAIN wave = Slots /\ {stage, seen} \subseteq Stages
    /\ swing.kind \in Kinds \cup {"none"} /\ swing.slot \in Slots \cup {None}
    /\ swing.kind # "none" => swing.tick < Timing[swing.kind].total
    /\ combo.window \in 0 .. WindowFrames /\ combo.reserved \in Slots \cup {None}
    /\ zero.slash \in 0 .. SlashEnd /\ zero.charge \in 0 .. ChargeCap
    /\ zero.burst \in 0 .. 2 /\ zero.shots \subseteq Slots
    /\ {special, ground, latch, x, y} \subseteq BOOLEAN
    /\ pc \in {"player", "native", "projectiles"}

\* $0BDD, which limits the native shots, counts the live slots: every module
\* that fills or clears one keeps it, once.
CountMatches == count = Cardinality(Holding(Frame, {t \in Things : Live(t)}))

\* The slots with a swing tag are the current swing's hitbox, and only while
\* it is active: no exit, chain or weapon tick leaves one that goes on cutting.
HitboxOwned ==
    /\ Holding(Frame, {"swing"}) = IF Phase(swing) = "active" THEN {swing.slot} ELSE {}
    /\ Phase(swing) = "active" => swing.own

\* A held slot is the reserved one, and between frames it is held for a
\* finisher that has not yet thrown its wave: none is lost to the pool.
ReservationFaithful ==
    /\ Holding(Frame, {"held"}) = {combo.reserved} \ {None}
    /\ AtRest /\ combo.reserved # None => zero.slash \in 1 .. SlashWave - 1

\* A wave that can touch an enemy was thrown in this stage.
StageOwnsWaves ==
    pc = "player" => \A d \in Holding(Frame, {"held", "wave"}) : wave[d].stage = stage

\* Every one of the eight slots is accounted for, though five modules fill and
\* clear them, and none is filled from another stage.
SlotsAccounted == CountMatches /\ HitboxOwned /\ ReservationFaithful /\ StageOwnsWaves

\* After player_end the swing suits the body: landing ends an air swing,
\* leaving the wall a wall swing, and nothing swings that is hit, stunned,
\* dead or not in play.
SwingFitsBody ==
    AtRest => /\ swing.kind = "air" => ~Grounded(act)
              /\ swing.kind = "wall" => act = "wall"
              /\ swing.kind # "none" => CanFire(act)

\* A charge that the player has let go of is not kept: it waits only for X
\* (outside Saber's context Y), for the end of an attack, or of a knockback.
ChargeHeld ==
    pc = "native" /\ zero.charge > 0 =>
        x \/ latch \/ zero.slash > 0 \/ act = "hurt" \/ (act = "shut" /\ y)

\* The frame of a body that can go on with its swing does go on with it, if
\* the swing has its slot or can have one: only its end, a fall from a dash,
\* or an exhausted pool stops it.
SwingSurvives ==
    [][/\ pc = "player" /\ pc' = "native" /\ swing.kind # "none" /\ CanFire(act)
       /\ swing.kind = "dash" => Grounded(act)
       /\ swing.tick + 1 < Timing[swing.kind].total
       /\ Holding(Frame, {"free", "swing"}) # {}
       => swing'.kind # "none"]_vars

\* A swing neither keeps a charge nor lets one go: the release that it holds
\* back comes when it is over, and no burst begins while a swing or a finisher
\* owns the action, except for a charge that was let go of during a knockback.
SwingLeavesCharge ==
    /\ []ChargeHeld
    /\ [][/\ pc = "player" /\ zero.burst = 0 /\ zero'.burst # 0 /\ FrameContext(act)
          /\ swing'.kind # "none" \/ zero'.slash # 0
          => ~x' /\ ~x /\ ~latch]_vars
================================================================================

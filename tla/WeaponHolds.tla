------------------------------ MODULE WeaponHolds ------------------------------
(***************************************************************************)
(* The weapons that hold something: Crystal Hunter freezes an enemy, or    *)
(* time; Parasitic Bomb rides one, or locks cursors on several; Gravity    *)
(* Well carries them all off; Strike Chain carries a pickup.               *)
(***************************************************************************)
EXTENDS WeaponTicks

CONSTANTS
    Quadrants,      \* cursors of a charged bomb (4 in the code)
    PayloadLife,    \* frames a bomb rides its host (180, or 240 standing or rolling)
    PullLife,       \* frames a well pulls (180)
    FieldLife,      \* frames a charged well lifts (300)
    VictimLife,     \* frames until a victim is destroyed (60)
    TimeOnset,      \* frames of the still onset of a time stop (180)
    TimeLife        \* frames of the whole time stop (660)
ASSUME HoldsAssumption ==
    /\ Quadrants \in Nat \ {0} /\ {PayloadLife, PullLife, FieldLife, VictimLife} \subseteq Nat \ {0}
    /\ TimeOnset \in Nat /\ TimeLife \in Nat /\ TimeOnset < TimeLife

Pointed(g, s, e, form) ==
    [g EXCEPT !.shots[s].form = form, !.shots[s].target = e,
              !.shots[s].kind = g.enemies[e], !.shots[s].clock = 0]
Wound(g, s, form, clock) == [Into(g, s, form) EXCEPT !.shots[s].clock = clock]

-----------------------------------------------------------------------------
(* Crystal Hunter *)

CrystalContact(g, e, s) == Pointed(g, s, e, "icing")

\* Only a crystal that still has its enemy goes on; at the end of a charged
\* shot time runs again.  A dash through a crystal shatters it, which gives
\* the enemy back for the lethal contact.
CrystalTick(g, s) ==
    LET p == g.shots[s]
        others == Others(g, s)
        flying == {i \in others : Is(g, i, {"crystal", "bounced"})}
        refused == \/ flying # {}
                   \/ \E i \in others : g.shots[i].charged
                   \/ ~p.charged /\ Cardinality(others \ flying) >= 3
        lost == g.enemies[p.target] # p.kind
    IN  CASE Fresh(g, s) -> Launch(g, s, refused, IF p.charged THEN "time" ELSE "crystal", <<>>)
          [] p.form = "time" -> {g}
          [] p.form = "crystal" -> {g, Into(g, s, "bounced"), Retired(g, s)}
          [] p.form = "bounced" -> {g, Retired(g, s)}
          [] lost -> {Retired(g, s)}
          [] p.form = "icing" -> {Into(g, s, "ice"), Retired(g, s)}
          [] p.form = "ice" -> {g, Into(g, s, "shatter"), Retired(g, s)}
          [] p.form = "shatter" -> {Retired(g, s)}

-----------------------------------------------------------------------------
(* Parasitic Bomb *)

Locking == {"lock", "locked", "busy"}
CursorForms == {"wait", "back"} \cup Locking
CursorsOf(g) == {s \in Slots : Is(g, s, CursorForms)}
CursorAt(g, q) == {s \in CursorsOf(g) : g.shots[s].quad = q}

\* The enemies a cursor may aim at: alive, in view and held by nobody.
ParasiticTarget(g, e, seen) == e \in seen /\ g.enemies[e] # NoFoe /\ ~Held(g, e)
Reserved(g, s, e) ==
    \E i \in CursorsOf(g) \ {s} : Is(g, i, Locking) /\ g.shots[i].target = e

\* Mutant for HeldApart: a cursor does not look at the others' targets.
ParasiticSearchAny(g, s, seen) == {e \in Foes : ParasiticTarget(g, e, seen)}

\* A cursor aims at no other cursor's target.
ParasiticSearch(g, s, seen) == {e \in Foes : ParasiticTarget(g, e, seen) /\ ~Reserved(g, s, e)}

\* The bomb rides an enemy small enough; the frames in which it gets hold are
\* the first of its ride.
ParasiticContact(g, e, s) == Wound(Pointed(g, s, e, "payload"), s, "payload", PayloadLife)

\* The turn to search goes round the cursors: it is the first cursor's to
\* keep; without that cursor it falls to the lowest slot's at every tick.
Turn(g) ==
    IF CursorAt(g, 0) # {} THEN g.token ELSE g.shots[Least(CursorsOf(g))].quad
Passed(g, s) == [g EXCEPT !.token = (g.shots[s].quad + 1) % Quadrants]

CursorTick(f, s, holding, seen) ==
    LET p == f.shots[s]
        g == [f EXCEPT !.token = Turn(f)]
        pass(h) == IF p.form = "lock" /\ p.clock = 1 THEN Passed(h, s) ELSE h
        lost == /\ p.form \in {"lock", "locked"}
                /\ ~(ParasiticTarget(g, p.target, seen) /\ g.enemies[p.target] = p.kind)
        found == ParasiticSearch(g, s, seen)
        bee == [NoShot EXCEPT !.form = "bee", !.charged = TRUE, !.age = "born", !.quad = p.quad]
        unlocked(form) == [Wound(g, s, form, 0) EXCEPT !.shots[s].target = 0, !.shots[s].kind = "none"]
        home == {Retired(g, s)} \cup IF holding THEN {Wound(g, s, "wait", 0)} ELSE {}
    IN  CASE lost -> {pass(unlocked("back"))}
          [] p.form = "wait" /\ ~holding -> {Retired(g, s)}
          [] p.form = "wait" /\ g.token = p.quad /\ found # {} ->
                {Retired(g, s)} \cup {Wound(Pointed(g, s, e, "lock"), s, "lock", 1) : e \in found}
          [] p.form = "lock" -> {g, pass(Wound(g, s, "lock", 0)), pass(Wound(g, s, "locked", 0))}
          [] p.form = "locked" ->
                {unlocked("back"),
                 IF FreeSlots(g) = {} THEN g ELSE Into(Spawned(g, <<bee>>), s, "busy")}
          [] p.form = "busy" ->
                {IF \E i \in Slots : Is(g, i, {"bee"}) /\ g.shots[i].quad = p.quad
                 THEN g ELSE unlocked("back")}
          [] p.form = "back" -> home
          [] OTHER -> {g, Retired(g, s)}

ParasiticTick(g, s, holding, seen) ==
    LET p == g.shots[s]
        h == Start(g, s, "wait")
        cursor(q) == [Child(h.shots[s], "wait") EXCEPT !.quad = q]
        plain == {i \in Others(g, s) : ~g.shots[i].charged}
    IN  CASE Fresh(g, s) /\ p.charged ->
                {IF CursorsOf(g) # {} THEN Retired(g, s)
                 ELSE Spawned([h EXCEPT !.token = 0], [q \in 1 .. Quadrants - 1 |-> cursor(q)])}
          [] Fresh(g, s) -> Launch(g, s, Cardinality(plain) >= 3, "bomb", <<>>)
          [] p.age = "born" -> {g}
          [] p.form \in CursorForms -> CursorTick(g, s, holding, seen)
          [] p.form = "payload" /\ ~Host(g, p) -> {Retired(g, s)}
          [] p.form = "payload" ->
                {Retired(g, s)} \cup IF p.clock = 1 THEN {} ELSE {Wound(g, s, "payload", p.clock - 1)}
          [] OTHER -> Fly(g, s, [bomb |-> {}, bee |-> {}])

-----------------------------------------------------------------------------
(* Gravity Well *)

WellForms == {"well", "open", "pull", "close", "return", "cast", "rise", "field"}
Wells(g) == {s \in Slots : Is(g, s, WellForms)}
Body(g) == {s \in Slots : Is(g, s, {"body"})}
Pulling(g) == \E s \in Slots : Is(g, s, {"pull", "field"})

\* Every live enemy in view that nobody holds is taken into a free record.
Captured(g, e) ==
    LET free == {x \in Effects : g.effects[x] = NoVictim}
    IN  IF g.enemies[e] = NoFoe \/ Held(g, e) \/ free = {} THEN g
        ELSE [g EXCEPT !.effects[Least(free)] =
                [target |-> e, kind |-> g.enemies[e], clock |-> VictimLife]]
GravityCapture(g, seen) == Through(LAMBDA h, e : IF e \in seen THEN Captured(h, e) ELSE h, g, EnemyCount)

\* Mutant for HoldsEnd: the end of the pull lets nobody go.
GravityEffectLingers(g, x) ==
    LET v == g.effects[x]
        freed(h) == [h EXCEPT !.effects[x] = NoVictim]
    IN  CASE v = NoVictim -> g
          [] ~Host(g, v) -> freed(g)
          [] v.kind \in LargeKinds -> g
          [] v.clock = 1 -> freed(Destroyed(g, v))
          [] OTHER -> [g EXCEPT !.effects[x].clock = @ - 1]

\* A victim is let go with its enemy or with the pull; a small one is lifted
\* until it is destroyed, a large one only shakes.
GravityEffectTick(g, x) ==
    LET v == g.effects[x]
        freed(h) == [h EXCEPT !.effects[x] = NoVictim]
    IN  CASE v = NoVictim -> g
          [] ~Host(g, v) \/ ~Pulling(g) -> freed(g)
          [] v.kind \in LargeKinds -> g
          [] v.clock = 1 -> freed(Destroyed(g, v))
          [] OTHER -> [g EXCEPT !.effects[x].clock = @ - 1]
EffectsTicked(g) == Through(GravityEffectTick, g, EffectCount)

GravityTick(g, s, seen) ==
    LET p == g.shots[s]
        h == Start(g, s, "cast")
        caught == GravityCapture(g, seen)
        raised == [g EXCEPT !.shots = [i \in Slots |->
                     IF i \in Wells(g) /\ Is(g, i, {"cast"}) THEN [@[i] EXCEPT !.form = "rise"] ELSE @[i]]]
    IN  CASE Fresh(g, s) /\ p.charged ->
                {Retired(g, s)} \cup
                IF Others(g, s) # {} \/ FreeSlots(g) = {} THEN {}
                ELSE {Spawned(h, <<Child(h.shots[s], "body")>>)}
          [] Fresh(g, s) -> Launch(g, s, Others(g, s) # {}, "well", <<>>)
          [] p.age = "born" -> {g}
          [] p.form = "body" ->
                {Retired(g, s)} \cup IF Wells(g) = {} THEN {} ELSE {raised}
          [] p.charged /\ Body(g) = {} -> {Retired(g, s)}
          [] p.form = "cast" -> {g}
          [] p.form = "rise" -> {Wound(g, s, "field", FieldLife)}
          [] p.form = "field" ->
                {IF p.clock = 1 THEN Retired(g, s) ELSE Wound(caught, s, "field", p.clock - 1)}
          [] p.form = "open" -> {g, Wound(g, s, "pull", PullLife), Retired(g, s)}
          [] p.form = "pull" ->
                {Into(caught, s, "close"), Retired(caught, s)}
                \cup IF p.clock = 1 THEN {} ELSE {Wound(caught, s, "pull", p.clock - 1)}
          [] OTHER -> Fly(g, s, [well |-> {To("open")}, close |-> {To("return")}, return |-> {}])

-----------------------------------------------------------------------------
(* Strike Chain *)

\* The hook takes a pickup that nobody carries, and marks it as carried.
ChainGrab(g, s) ==
    IF g.item = NoItem \/ g.item.taken THEN {}
    ELSE {[g EXCEPT !.shots[s].form = "carry", !.shots[s].kind = g.item.kind, !.item.taken = TRUE]}

ChainTick(g, s) ==
    LET p == g.shots[s]
    IN  CASE Fresh(g, s) -> Launch(g, s, Others(g, s) # {}, "throw", <<>>)
          [] p.form = "out" ->
                {g, Into(g, s, "back"), Into(g, s, "wall"), Retired(g, s)}
                \cup IF p.charged THEN {} ELSE ChainGrab(g, s)
          [] p.form = "back" -> {g, Retired(g, s)} \cup ChainGrab(g, s)
          [] p.form = "carry" /\ g.item.kind # p.kind -> {Into(g, s, "back"), Retired(g, s)}
          [] OTHER -> Fly(g, s, [throw |-> {To("out")}, wall |-> {}, carry |-> {}])
===============================================================================

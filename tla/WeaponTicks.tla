----------------------------- MODULE WeaponTicks -----------------------------
(***************************************************************************)
(* The weapons whose shots only fly, hit, change and break up.  One        *)
(* operator per weapon gives the arenas that a tick of slot s can lead to: *)
(* its first tick, and for every form what phase, terrain and contacts     *)
(* make of it.  "fade" is a picture that no longer collides.               *)
(***************************************************************************)
EXTENDS WeaponPool

CONSTANTS MaxRenewals       \* times a thunder triangle is renewed (3 in the code)
ASSUME RenewalsAssumption == MaxRenewals \in Nat

To(form) == <<form, <<>>>>
Same(g, s) == {i \in Others(g, s) : g.shots[i].charged = g.shots[s].charged}

SonicTick(g, s) ==
    IF Fresh(g, s)
    THEN Launch(g, s, Others(g, s) # {}, IF g.shots[s].charged THEN "gathering" ELSE "slicing", <<>>)
    ELSE Fly(g, s,
         [slicing   |-> {<<"slice", <<"slice">>>>, To("fade")},
          gathering |-> {<<"gale", Four("gale")>>, To("fade")},
          slice     |-> {To("fade")},
          gale      |-> {To("fade")}])

AcidTick(g, s) ==
    IF Fresh(g, s)
    THEN IF g.shots[s].charged THEN Launch(g, s, FALSE, "bouncer", <<"bouncer">>)
         ELSE Launch(g, s, FALSE, "acid", <<>>)
    ELSE Fly(g, s,
         [acid    |-> {To("splash"), To("fade")},
          splash  |-> {<<"fade", Four("drop")>>},
          drop    |-> {To("fade")},
          bouncer |-> {<<"bouncer", <<"fade">>>>, <<"gone", <<"fade">>>>, To("fade")}])

Emitters == {"muzzle", "pod", "turret"}
RayTick(g, s) ==
    IF Fresh(g, s)
    THEN Launch(g, s, \E i \in Same(g, s) : Is(g, i, Emitters),
                IF g.shots[s].charged THEN "pod" ELSE "muzzle", <<>>)
    ELSE Fly(g, s,
         [muzzle |-> {<<"muzzle", <<"ray">>>>},
          pod    |-> {To("turret")},
          turret |-> {<<"turret", <<"ray">>>>},
          ray    |-> {To("fade")}])

\* A killed enemy knocks the core out of a seed or a rocket; a survivor
\* shatters them without shards.  The water form is a platform.
Shatter == <<"fade", Four("fade")>>
FrostTick(g, s) ==
    IF Fresh(g, s)
    THEN Launch(g, s, Same(g, s) # {}, IF g.shots[s].charged THEN "iceForm" ELSE "seed", <<>>)
    ELSE Fly(g, s,
         [seed    |-> {To("rocket"), To("fade"), <<"core", Four("fade")>>},
          rocket  |-> {To("fade"), <<"core", Four("fade")>>},
          core    |-> {To("planted"), To("fade"), Shatter},
          planted |-> {To("fade"), Shatter},
          iceForm |-> {To("shield"), To("platform"), To("fade")},
          shield  |-> {<<"chunk", Four("fade")>>, To("fade"), Shatter},
          chunk   |-> {To("fade"), Shatter},
          platform |-> {To("fade"), Shatter}])

WheelTick(g, s) ==
    IF Fresh(g, s)
    THEN Launch(g, s, Same(g, s) # {}, IF g.shots[s].charged THEN "spin" ELSE "wheel", <<>>)
    ELSE Fly(g, s,
         [wheel |-> {To("fade")},
          spin  |-> {<<"spoke", Four("spoke") \o <<"spoke", "spoke", "spoke">>>>},
          spoke |-> {}])

\* The manager of the bubble shield adds one bubble per tick while there is a
\* slot; the tick that cannot pay for it is its last but one.
Managers(g) == {i \in Slots : Is(g, i, {"manager", "spent"})}
BubbleEmit(g, s) ==
    IF FreeSlots(g) = {} THEN {g}
    ELSE {Into(g, s, "spent"), Spawned(g, <<Child(g.shots[s], "orbit")>>)}
BubbleTick(g, s) ==
    LET p == g.shots[s]
        refused == \/ Managers(g) # {}
                   \/ ~p.charged /\ Cardinality(Same(g, s)) >= 7
    IN  CASE Fresh(g, s) /\ (refused \/ ~p.charged) -> Launch(g, s, refused, "bubble", <<>>)
          [] Fresh(g, s) -> {Retired(g, s)} \cup BubbleEmit(Start(g, s, "manager"), s)
          [] p.age = "born" -> {g}
          [] p.form = "spent" -> {Retired(g, s)}
          [] p.form = "manager" -> {Retired(g, s)} \cup BubbleEmit(g, s)
          [] p.form = "orbit" /\ Managers(g) = {} -> {Into(g, s, "fade"), Retired(g, s)}
          [] OTHER -> Fly(g, s, [orbit |-> {To("fade")}, bubble |-> {To("fade")}])

\* A blast sets off the mines it touches when it ends, not when it starts.
MagnetTick(g, s) ==
    LET p == g.shots[s]
        mines == {i \in Others(g, s) : Is(g, i, {"fly", "arm", "plant"})}
        Detonated(near) == [g EXCEPT !.shots = [i \in Slots |->
                               IF i \in near THEN [@[i] EXCEPT !.form = "blast"] ELSE @[i]]]
    IN  CASE Fresh(g, s) ->
                Launch(g, s, \E i \in Others(g, s) : g.shots[i].charged \/ Is(g, i, {"fly", "arm"}),
                       IF p.charged THEN "magnet" ELSE "fly", <<>>)
          [] p.form = "blast" -> {g} \cup {Retired(Detonated(near), s) : near \in SUBSET mines}
          [] OTHER -> Fly(g, s,
                [fly    |-> {To("arm"), To("blast")},
                 arm    |-> {To("plant"), To("blast")},
                 plant  |-> {To("blast")},
                 magnet |-> {}])

\* Under water the flame becomes a shot with two bubbles in orbit around it;
\* a bubble names its parent's slot and leaves with it.
Wet(g, s) ==
    LET eddy == [Child(g.shots[s], "eddy") EXCEPT !.target = s]
    IN  Spawned(Into(g, s, "wet"), <<eddy, eddy>>)
SpeedTick(g, s) ==
    LET p == g.shots[s]
    IN  CASE Fresh(g, s) ->
                Launch(g, s, FALSE, IF p.charged THEN "dash" ELSE "flame", <<>>)
                \cup IF p.charged THEN {} ELSE {Wet(Start(g, s, "flame"), s)}
          [] p.age = "born" -> {g}
          [] p.form = "eddy" /\ ~Is(g, p.target, {"wet"}) -> {Retired(g, s)}
          [] p.form = "flame" ->
                {Wet(g, s)} \cup Fly(g, s, [flame |-> {<<"flame", <<"ground">>>>, To("fade")}])
          [] OTHER -> Fly(g, s,
                [wet |-> {}, eddy |-> {}, ground |-> {To("fade")}, dash |-> {}])

BladeTick(g, s) ==
    IF Fresh(g, s)
    THEN IF g.shots[s].charged THEN Launch(g, s, FALSE, "blade", <<>>)
         ELSE Launch(g, s, FALSE, "blade", <<"blade">>)
    ELSE Fly(g, s, [blade |-> {To("fade")}])

\* A second press within a second of a single drill sends a pair.
FangTick(g, s) ==
    LET p == g.shots[s]
        others == Others(g, s)
        refused == \/ \E i \in others : g.shots[i].charged
                   \/ ~p.charged /\ Cardinality(others) >= 3
        pair == ~p.charged /\ Cardinality(others) = 1
    IN  IF Fresh(g, s)
        THEN Launch(g, s, refused, IF p.charged THEN "bit" ELSE "drill", <<>>)
             \cup IF pair THEN Launch(g, s, refused, "drill", <<"drill">>) ELSE {}
        ELSE Fly(g, s, [drill |-> {To("fade")}, bit |-> {}])

-----------------------------------------------------------------------------
(* Silk *)

\* Silk gathers, or is thrown, in as many pieces as there are free slots.
SilkCreatePieces(g, form) ==
    Spawned(g, [i \in Slots |-> [NoShot EXCEPT !.form = form, !.charged = TRUE, !.age = "born"]])

\* The ball is retired first, so a piece may take its slot.
SilkSplit(g, s) == Spawned(Retired(g, s), Children(g.shots[s], Four("piece")))

SilkTick(g, s, holding) ==
    LET p == g.shots[s]
    IN  CASE Fresh(g, s) /\ p.charged -> {SilkCreatePieces(Retired(g, s), "thrown")}
          [] Fresh(g, s) -> Launch(g, s, FALSE, "ball", <<>>)
          [] p.age = "born" -> {g}
          [] p.form = "gathered" -> {IF holding THEN g ELSE Into(g, s, "thrown")}
          [] p.form \in {"ball", "piece"} -> {g, Retired(g, s), SilkSplit(g, s)}
          [] OTHER -> Fly(g, s, [thrown |-> {To("scattered")}, scattered |-> {}])

-----------------------------------------------------------------------------
(* Thunder *)

Turning == {"orb", "ready", "linked"}
Bodies == {"storm", "quake", "quaked"}

\* A renewed triangle starts over with every orb that has not left.
TriadRenew(g, s) ==
    [g EXCEPT !.shots = [i \in Slots |->
        IF Is(g, i, Turning)
        THEN [@[i] EXCEPT !.form = "orb", !.age = "born", !.clock = g.shots[s].clock + 1]
        ELSE @[i]]]

TriadStart(g, s) ==
    LET p == g.shots[s]
        h == IF p.charged THEN Through(LAMBDA f, i : IF i = s THEN f ELSE Retired(f, i), g, SlotCount) ELSE g
        refused == \E i \in Others(g, s) : ~p.charged \/ g.shots[i].charged
        orb(i) == [Child(p, "orb") EXCEPT !.quad = i]
    IN  CASE refused -> {Retired(g, s)}
          [] p.charged -> Launch(h, s, FALSE, "storm", <<"wave", "wave">>)
          [] OTHER -> {Retired(g, s), Spawned(Start(g, s, "orb"), <<orb(1), orb(2)>>)}

TriadTick(g, s) ==
    LET p == g.shots[s]
        body == {i \in Slots : Is(g, i, Bodies)}
        kid(form) == Child([p EXCEPT !.quad = 0], form)
        links == IF p.quad = 0 THEN <<kid("link"), kid("link"), kid("link")>> ELSE <<>>
    IN  CASE Fresh(g, s) -> TriadStart(g, s)
          [] p.age = "born" -> {g}
          [] p.form = "orb" -> {Into(g, s, "ready"), Retired(g, s)}
          [] p.form = "ready" -> {Spawned(Into(g, s, "linked"), links), Retired(g, s)}
          [] p.form = "linked" ->
                {Into(Spawned(g, <<kid("bolt")>>), s, "falling"), Retired(g, s)}
                \cup IF p.quad = 0 /\ p.clock < MaxRenewals THEN {TriadRenew(g, s)} ELSE {}
          [] p.form = "wave" ->
                {Retired(g, s)} \cup
                (CASE body = {} -> {}
                   [] \E i \in body : Is(g, i, {"quaked"}) -> {Into(g, s, "running")}
                   [] OTHER -> {g})
          [] OTHER -> Fly(g, s,
                [storm |-> {To("quake")}, quake |-> {To("quaked")}, quaked |-> {},
                 running |-> {}, link |-> {}, bolt |-> {}, falling |-> {}])
===============================================================================

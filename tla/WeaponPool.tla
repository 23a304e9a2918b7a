------------------------------ MODULE WeaponPool ------------------------------
(***************************************************************************)
(* The imported X2 and X3 weapons fly in the guest's own projectile slots. *)
(* Beside every slot the host keeps a record of what the shot is, and the  *)
(* guest keeps the number of shots in the air.  This module is the pool:   *)
(* the slots, the records, what a shot leaves behind when it is retired,   *)
(* how shots are added, and which enemies a shot holds.                    *)
(***************************************************************************)
EXTENDS Integers, FiniteSets, Sequences

CONSTANTS
    SlotCount,      \* projectile slots of the guest (8 in the code)
    EnemyCount,     \* enemy slots of the guest (15 in the code)
    EffectCount,    \* records of the well's victims (16 in the code)
    SmallKinds,     \* kinds of enemies a well lifts
    LargeKinds      \* kinds of enemies it only shakes

ASSUME PoolAssumption ==
    /\ SlotCount \in Nat \ {0} /\ EnemyCount \in Nat \ {0} /\ EffectCount \in Nat \ {0}
    /\ SmallKinds \cap LargeKinds = {} /\ "none" \notin SmallKinds \cup LargeKinds

Slots == 1 .. SlotCount
Foes == 1 .. EnemyCount
Effects == 1 .. EffectCount
Kinds == SmallKinds \cup LargeKinds

(***************************************************************************)
(* A record: the form stands for the weapon's variant and phase, age for   *)
(* the age and the tick of birth ("new" has not ticked yet, "born" is in   *)
(* its first frame), clock for the phase's timer, target for the slot it   *)
(* names (an enemy, or a parent shot), kind for what that slot held when   *)
(* it was named, quad for its place in a group.                            *)
(***************************************************************************)
NoShot == [form |-> "none", charged |-> FALSE, age |-> "old", clock |-> 0,
           target |-> 0, kind |-> "none", quad |-> 0]
NewShot(charged) == [NoShot EXCEPT !.form = "fired", !.charged = charged, !.age = "new"]
NoVictim == [target |-> 0, kind |-> "none", clock |-> 0]
NoFoe == "none"
NoItem == [kind |-> "none", taken |-> FALSE]

\* The arena before a shot is fired.
EmptyArena ==
    [shots |-> [s \in Slots |-> NoShot], actors |-> [s \in Slots |-> "free"], count |-> 0,
     enemies |-> [e \in Foes |-> NoFoe], effects |-> [x \in Effects |-> NoVictim],
     partner |-> {}, item |-> NoItem, token |-> 0]

Is(g, s, forms) == g.shots[s].form \in forms
Others(g, s) == {i \in Slots \ {s} : ~Is(g, i, {"none"})}
FreeSlots(g) == {s \in Slots : g.actors[s] = "free"}
Least(S) == CHOOSE x \in S : \A y \in S : x <= y

\* What a loop over the numbers 1 to n makes of g.
Through(Op(_, _), g, n) ==
    LET after[i \in 0 .. n] == IF i = 0 THEN g ELSE Op(after[i - 1], i) IN after[n]

-----------------------------------------------------------------------------
(* Enemies that are held *)

Freezing == {"icing", "ice"}          \* a crystal around its enemy
Carrying == {"payload"}               \* a bomb on its enemy

\* An enemy in a crystal, with a bomb or in the well does not run, and
\* collides with nothing; neither does one the partner holds.
OwnHolders(g, e) ==
    Cardinality({s \in Slots : Is(g, s, Freezing \cup Carrying) /\ g.shots[s].target = e})
    + Cardinality({x \in Effects : g.effects[x].target = e})
Held(g, e) == OwnHolders(g, e) > 0 \/ e \in g.partner
Moved(g, e) ==
    \/ \E s \in Slots : Is(g, s, Carrying) /\ g.shots[s].target = e
    \/ \E x \in Effects : g.effects[x].target = e

\* The enemy a record names is still the one it was.
Host(g, p) ==
    p.target \in Foes /\ g.enemies[p.target] = p.kind

\* The enemy is killed by script; in its death it counts as gone.
Destroyed(g, p) ==
    IF Host(g, p) THEN [g EXCEPT !.enemies[p.target] = NoFoe] ELSE g

-----------------------------------------------------------------------------
(* Shots that end and shots that start *)

\* What a shot takes with it: a bomb its host, a crystal the enemy in it, a
\* chain its hold on the item it carries.
Released(g, p) ==
    CASE p.form \in Carrying \cup Freezing -> Destroyed(g, p)
      [] p.form = "carry" /\ g.item.kind = p.kind -> [g EXCEPT !.item.taken = FALSE]
      [] OTHER -> g

Retired(g, s) ==
    LET h == Released(g, g.shots[s])
        owned == g.actors[s] = "owned"
    IN  [h EXCEPT !.actors[s] = IF owned THEN "free" ELSE @,
                  !.count = IF owned /\ @ > 0 THEN @ - 1 ELSE @,
                  !.shots[s] = NoShot]

\* Every shot is retired, then the whole record is cleared.
CancelShots(g) ==
    LET h == Through(Retired, g, SlotCount)
    IN  [h EXCEPT !.effects = EmptyArena.effects, !.token = 0]

\* Mutant for ShotsAccounted: the guest does not count a child.
SpawnChildUncounted(g, record) ==
    IF FreeSlots(g) = {} THEN g
    ELSE LET s == Least(FreeSlots(g))
         IN  [g EXCEPT !.shots[s] = record, !.actors[s] = "owned"]

\* A child takes the lowest free slot; with none free it is left out.
SpawnChild(g, record) ==
    IF FreeSlots(g) = {} THEN g
    ELSE LET s == Least(FreeSlots(g))
         IN  [g EXCEPT !.shots[s] = record, !.actors[s] = "owned", !.count = @ + 1]
Spawned(g, records) == Through(LAMBDA h, i : SpawnChild(h, records[i]), g, Len(records))
Child(p, form) == [p EXCEPT !.form = form, !.age = "born", !.clock = 0]
Children(p, forms) == [i \in DOMAIN forms |-> Child(p, forms[i])]
Four(form) == <<form, form, form, form>>

-----------------------------------------------------------------------------
(* The skeleton of a weapon's tick *)

Fresh(g, s) == g.shots[s].age = "new"
Into(g, s, form) ==
    LET p == g.shots[s]
    IN  [g EXCEPT !.shots[s] = IF form = "fade" THEN [NoShot EXCEPT !.form = form, !.charged = p.charged]
                               ELSE [p EXCEPT !.form = form]]
Start(g, s, form) == [g EXCEPT !.shots[s].form = form, !.shots[s].age = "born"]

\* The first tick of a shot: it is given up when the weapon refuses another
\* one or the energy is short, else it starts and brings its children.
Launch(g, s, refused, form, kids) ==
    {Retired(g, s)} \cup
    IF refused THEN {}
    ELSE LET h == Start(g, s, form) IN {Spawned(h, Children(h.shots[s], kids))}

\* A later tick: the shot goes on, ends (out of view, too old), or takes one
\* of the <<form, children>> its phase, the terrain or a contact leads to.  A
\* fading picture keeps its slot for one tick more.
Fly(g, s, course) ==
    LET p == g.shots[s]
        Led(o) == LET h == Spawned(g, Children(p, o[2]))
                  IN  IF o[1] = "gone" THEN Retired(h, s) ELSE Into(h, s, o[1])
    IN  CASE p.age = "born" -> {g}
          [] p.form = "fade" -> {Retired(g, s)}
          [] OTHER -> {g, Retired(g, s)} \cup {Led(o) : o \in course[p.form]}
===============================================================================

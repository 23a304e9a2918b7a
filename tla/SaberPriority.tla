---------------------------- MODULE SaberPriority ----------------------------
(***************************************************************************)
(* Which hit of Saber Zero may break an enemy's invincibility              *)
(* (saber/mmx_saber_priority.c and the damage hook).  A hit the guest      *)
(* accepts is written down for its enemy with the priority of its class; a *)
(* follow-up of strictly higher priority within the window is admitted by  *)
(* a token that the response hook makes and the damage hook takes.  The    *)
(* class of a buster shot is known only from its birth, seen between the   *)
(* hooks in front of and behind the player.                                *)
(*                                                                         *)
(* An enemy that is gone, forced or of another kind when the host next     *)
(* looks is another enemy; one that is replaced by its like unseen is not. *)
(* Amounts of damage and the table rows they come from are left out.       *)
(***************************************************************************)
EXTENDS Integers, FiniteSets

CONSTANTS
    Targets,            \* enemy slots (15 in the code)
    FoeKinds,        \* kinds of enemies, "armadillo" among them
    Cells,           \* projectile slots (8)
    Levels,          \* stages
    Ladder,          \* the priority of each class (1 to 9)
    Window,          \* frames a hit can be followed up in (70)
    Generations,     \* values of an enemy's generation (255)
    Arms             \* sets of what Zero uses in a behavior

Classes == DOMAIN Ladder
SwingClasses == Classes \ {"wave", "finisher", "small", "full", "max1", "max2"}
Buster == {"small", "full"}

ASSUME PriorityAssumption ==
    /\ Targets # {} /\ IsFiniteSet(Targets) /\ IsFiniteSet(Cells) /\ Levels # {}
    /\ {"small", "full", "max1", "max2", "finisher", "wave"} \subseteq Classes
    /\ \A c \in Classes : Ladder[c] \in 1 .. 9
    /\ Window \in Nat /\ Generations \in Nat \ {0} /\ "none" \notin Classes

VARIABLES
    fight,    \* the guest: level, foe, cell, and Zero's swing, burst and marked shots
    pri,      \* MmxSaberPriorityState
    step,     \* "frame", "player", "guest" or "struck"
    struck,   \* the collision between its response and its damage
    mark,     \* history: the last hit the guest accepted on each enemy
    verdict,  \* history: what the last collision got and what it was due
    arms      \* what Zero uses in this behavior

priVars == <<fight, pri, step, struck, mark, verdict, arms>>

NoHistory == [kind |-> "none", generation |-> 0, stage |-> "none", priority |-> 0, age |-> 0]
NoProvenance == [tag |-> "none", class |-> "none"]
NotSeen == [live |-> FALSE, tag |-> "none"]
NoPending == [foe |-> 0, cell |-> 0, tag |-> "none", generation |-> 0, stage |-> "none",
              class |-> "none"]
NoMark == [priority |-> 0, age |-> 0]
NoVerdict == [granted |-> FALSE, earned |-> FALSE, paid |-> FALSE]
EmptyCell == [what |-> "free", born |-> "none", hit |-> {}]

FoeLives(f, e) == f.foe[e].state # "gone"
Forced(f, e) == f.foe[e].state = "forced"
CellLives(f, c) == f.cell[c].what # "free"
\* The guest's own shots share a tag.
Tag(f, c) == IF f.cell[c].what \in Buster \cup {"pellet"} THEN "native" ELSE f.cell[c].what

Older(age) == IF age > Window THEN age ELSE age + 1
OneOlder(r, none) == IF r = none THEN none ELSE [r EXCEPT !.age = Older(@)]

-----------------------------------------------------------------------------
(* The host catches up with the guest before it judges anything *)

NoRecords ==
    [stage |-> "none", valid |-> FALSE, live |-> {}, generation |-> [e \in Targets |-> 0],
     history |-> [e \in Targets |-> NoHistory], provenance |-> [c \in Cells |-> NoProvenance],
     pre |-> [c \in Cells |-> NotSeen], preValid |-> FALSE, preBurst |-> 0, pending |-> NoPending]

SyncStage(p, f) ==
    IF p.valid /\ p.stage = f.level THEN p
    ELSE IF p.valid THEN [NoRecords EXCEPT !.valid = TRUE, !.stage = f.level]
    ELSE [p EXCEPT !.valid = TRUE, !.stage = f.level]

SyncFoes(p, f) ==
    LET q == SyncStage(p, f)
        new == {e \in Targets : FoeLives(f, e)} \ q.live
        generation == [e \in Targets |-> IF e \in new THEN (q.generation[e] % Generations) + 1
                                      ELSE q.generation[e]]
        holds(e) == /\ FoeLives(f, e) /\ e \notin new /\ ~Forced(f, e)
                    /\ q.history[e].kind = f.foe[e].kind
                    /\ q.history[e].generation = generation[e] /\ q.history[e].stage = q.stage
    IN  [q EXCEPT !.live = {e \in Targets : FoeLives(f, e)}, !.generation = generation,
                  !.history = [e \in Targets |-> IF holds(e) THEN @[e] ELSE NoHistory]]

SyncProvenance(p, f) ==
    [p EXCEPT !.provenance = [c \in Cells |-> IF CellLives(f, c) /\ @[c].tag = Tag(f, c)
                                              THEN @[c] ELSE NoProvenance]]

-----------------------------------------------------------------------------
(* Classes: of a hitbox by the swing that is active, of a buster shot by   *)
(* its birth, "none" when the host does not know.                          *)

SlashClass(f) == IF f.swing.active THEN f.swing.kind ELSE "none"
BusterClass(p, f, c) ==
    IF f.cell[c].what \in Buster /\ p.provenance[c].tag = Tag(f, c) THEN p.provenance[c].class
    ELSE "none"
ClassOf(p, f, c) ==
    CASE f.cell[c].what \in {"wave", "finisher"} -> f.cell[c].what
      [] f.cell[c].what = "swing" -> SlashClass(f)
      [] OTHER -> BusterClass(p, f, c)
Classified(p, f) == SyncProvenance(SyncFoes(p, f), f)

-----------------------------------------------------------------------------
(* An enemy's last hit *)

Known(p, f, e) == FoeLives(f, e) /\ ~Forced(f, e) /\ p.history[e].priority # 0
Eligible(p, f, e, class) ==
    /\ class # "none" /\ Known(p, f, e)
    /\ Ladder[class] > p.history[e].priority /\ p.history[e].age <= Window

Recorded(p, f, e, class) ==
    LET q == SyncFoes(p, f)
    IN  IF ~FoeLives(f, e) \/ Forced(f, e) THEN q
        ELSE [q EXCEPT !.history[e] = [kind |-> f.foe[e].kind, generation |-> q.generation[e],
                                       stage |-> q.stage, priority |-> Ladder[class], age |-> 0]]

-----------------------------------------------------------------------------
(* The two hooks of a collision.  The guest's answer is "hit", "none" for  *)
(* an invincible enemy, "reflected", or "guarded" for Armadillo's exposed  *)
(* row behind its protection.                                              *)

\* Mutant for FollowUpsJudged: a plain answer leaves the last token lying.
ResponseKeepsToken(p, f, e, c, answer) ==
    LET clear == [p EXCEPT !.pending = NoPending]
        q == Classified(clear, f)
        class == ClassOf(q, f, c)
    IN  IF answer \in {"hit", "reflected"} THEN p
        ELSE IF ~Eligible(q, f, e, class) THEN q
        ELSE [q EXCEPT !.pending = [foe |-> e, cell |-> c, tag |-> Tag(f, c),
                                    generation |-> q.history[e].generation, stage |-> q.stage,
                                    class |-> class]]

Response(p, f, e, c, answer) ==
    LET clear == [p EXCEPT !.pending = NoPending]
        q == Classified(clear, f)
        class == ClassOf(q, f, c)
    IN  IF answer \in {"hit", "reflected"} THEN clear
        ELSE IF ~Eligible(q, f, e, class) THEN q
        ELSE [q EXCEPT !.pending = [foe |-> e, cell |-> c, tag |-> Tag(f, c),
                                    generation |-> q.history[e].generation, stage |-> q.stage,
                                    class |-> class]]

Consumes(p, f, e, c) ==
    /\ p.pending.foe = e /\ p.pending.cell = c
    /\ p.pending.stage = p.stage /\ p.pending.generation = p.generation[e]
    /\ CellLives(f, c) /\ Tag(f, c) = p.pending.tag /\ Known(p, f, e)

\* What the damage hook leaves: the records, and whether it took the token.
DamageHook(p, f, e, c, answer) ==
    LET q == IF p.pending = NoPending THEN p ELSE SyncFoes(p, f)
        r == Classified(q, f)
        class == ClassOf(r, f, c)
    IN  IF p.pending # NoPending /\ Consumes(q, f, e, c)
        THEN [p |-> Recorded([q EXCEPT !.pending = NoPending], f, e, q.pending.class), paid |-> TRUE]
        ELSE [p |-> IF answer # "none" /\ class # "none" THEN Recorded(r, f, e, class) ELSE r,
              paid |-> FALSE]

-----------------------------------------------------------------------------
(* The hooks around the player.  A token is good only in its own frame, so *)
(* the one in front of the player may drop it.                             *)

ObservePrePlayer(p, f) ==
    LET q == SyncProvenance(SyncFoes(p, f), f)
    IN  [q EXCEPT !.history = [e \in Targets |-> OneOlder(@[e], NoHistory)],
                  !.pending = NoPending,
                  !.pre = [c \in Cells |-> [live |-> CellLives(f, c), tag |-> Tag(f, c)]],
                  !.preBurst = f.burst, !.preValid = TRUE]

BirthClass(p, f, c) ==
    LET emission == IF f.burst # 0 THEN f.burst ELSE p.preBurst
    IN  CASE f.cell[c].what = "small" -> "small"
          [] f.cell[c].what = "full" /\ c \in f.burstShots /\ emission = 1 -> "max1"
          [] f.cell[c].what = "full" /\ c \in f.burstShots /\ emission = 2 -> "max2"
          [] f.cell[c].what = "full" /\ (c \notin f.burstShots \/ emission = 0) -> "full"
          [] OTHER -> "none"

ObservePlayerEnd(p, f) ==
    LET q == SyncFoes(p, f)
        newborn(c) == CellLives(f, c) /\ (~q.pre[c].live \/ q.pre[c].tag # Tag(f, c))
        births == [c \in Cells |->
                     IF newborn(c) /\ BirthClass(q, f, c) # "none"
                     THEN [tag |-> Tag(f, c), class |-> BirthClass(q, f, c)]
                     ELSE IF newborn(c) \/ ~CellLives(f, c) \/ q.provenance[c].tag # Tag(f, c)
                     THEN NoProvenance ELSE q.provenance[c]]
    IN  IF ~q.preValid THEN SyncProvenance(q, f)
        ELSE [q EXCEPT !.provenance = births, !.preValid = FALSE, !.pre = [c \in Cells |-> NotSeen],
                       !.preBurst = 0]

-----------------------------------------------------------------------------
(* The frame *)

Uses(what) == what \in arms

PriorityInit ==
    /\ arms \in Arms
    /\ \E level \in Levels :
          fight = [level |-> level, context |-> TRUE,
                   foe |-> [e \in Targets |-> [kind |-> "plain", state |-> "gone"]], moved |-> {},
                   cell |-> [c \in Cells |-> EmptyCell], burstShots |-> {}, burst |-> 0,
                   swing |-> [kind |-> "none", active |-> FALSE]]
    /\ pri = NoRecords /\ step = "frame" /\ struck = {}
    /\ mark = [e \in Targets |-> NoMark] /\ verdict = NoVerdict

\* In front of the player: every record is a frame older.
PriorityPre ==
    /\ step = "frame" /\ step' = "player"
    /\ pri' = ObservePrePlayer(pri, fight)
    /\ mark' = [e \in Targets |-> OneOlder(mark[e], NoMark)]
    /\ fight' = [fight EXCEPT !.moved = {}]
    /\ verdict' = NoVerdict /\ UNCHANGED <<struck, arms>>

\* What the player and Zero's tick do in the frame: end a hitbox, make at
\* most one thing, let a burst begin or end.  Shots of a burst are marked; a
\* tick that sees one dead takes its mark away.
Makes(f, out, c, what) ==
    [f EXCEPT !.cell = [d \in Cells |-> IF d = c THEN [EmptyCell EXCEPT !.what = what]
                                        ELSE IF d \in out THEN EmptyCell ELSE @[d]]]
Marks(f, c, what, emission) ==
    {d \in f.burstShots : f.cell[d].what = "full"} \cup (IF emission # 0 THEN {c} ELSE {})

\* The true class of what was made, known to Saber if it was watching.
TrueBirth(what, emission) ==
    CASE what = "full" /\ emission = 1 -> "max1"
      [] what = "full" /\ emission = 2 -> "max2"
      [] what = "full" /\ emission = 0 -> "full"
      [] what = "small" -> "small"
      [] OTHER -> "none"

Plays(out, c, what, emission, burst, swing, context) ==
    /\ step = "player" /\ step' = "guest"
    /\ out \subseteq {d \in Cells : fight.cell[d].what \in {"swing", "finisher"}}
    /\ IF what = "free" THEN c = 0 ELSE c \in {d \in Cells : ~CellLives(fight, d)} \cup out
    /\ emission # 0 => what = "full" /\ (burst = emission \/ (burst = 0 /\ fight.burst = emission))
    /\ (what \in Buster /\ emission = 0) => burst = 0
    /\ LET made == IF what = "free" THEN Makes(fight, out, 0, "free") ELSE Makes(fight, out, c, what)
           g == [made EXCEPT !.burst = burst, !.swing = swing, !.context = context,
                             !.burstShots = Marks(fight, c, what, emission)]
           born == IF context THEN TrueBirth(what, emission) ELSE "none"
       IN  /\ fight' = [g EXCEPT !.cell = [d \in Cells |-> IF d = c THEN [@[d] EXCEPT !.born = born]
                                                           ELSE @[d]]]
           /\ pri' = IF context THEN ObservePlayerEnd(pri, g) ELSE pri
    /\ UNCHANGED <<struck, mark, verdict, arms>>

-----------------------------------------------------------------------------
(* The guest's collisions *)

Answers(e) ==
    CASE fight.foe[e].state = "open" -> {"hit", "reflected"}
      [] fight.foe[e].state = "safe" -> {"none", "reflected"}
      [] fight.foe[e].state = "forced" -> {"none", "hit"}
      [] fight.foe[e].state = "shielded" -> {"guarded"}
      [] OTHER -> {}

TrueClass(c) ==
    CASE fight.cell[c].what \in {"wave", "finisher"} -> fight.cell[c].what
      [] fight.cell[c].what = "swing" -> SlashClass(fight)
      [] OTHER -> fight.cell[c].born

\* What the last hit on the enemy entitles this one to.
Earned(e, c, answer) ==
    /\ answer \in {"none", "guarded"} /\ ~Forced(fight, e) /\ TrueClass(c) # "none"
    /\ mark[e] # NoMark /\ Ladder[TrueClass(c)] > mark[e].priority /\ mark[e].age <= Window

Responds(e, c, answer) ==
    /\ step = "guest" /\ CellLives(fight, c) /\ e \notin fight.cell[c].hit /\ answer \in Answers(e)
    /\ LET p == Response(pri, fight, e, c, answer)
           granted == p.pending # NoPending
       IN  /\ pri' = p
           /\ verdict' = [granted |-> granted, earned |-> Earned(e, c, answer), paid |-> FALSE]
           /\ step' = IF granted \/ answer \in {"hit", "guarded"} THEN "struck" ELSE "guest"
           /\ struck' = IF step' = "struck" THEN {<<e, c, answer>>} ELSE {}
    /\ UNCHANGED <<fight, mark, arms>>

\* The guest may drop a positive answer before the damage.
StrikeDropped ==
    /\ step = "struck" /\ step' = "guest" /\ struck' = {}
    /\ UNCHANGED <<fight, pri, mark, verdict, arms>>

\* The hit counts: the enemy dies of it, is invincible for a while, or not.
Hits(e, c, answer, after) ==
    /\ step = "struck" /\ <<e, c, answer>> \in struck /\ step' = "guest" /\ struck' = {}
    /\ after \in {fight.foe[e].state, "safe", "gone"}
    /\ LET d == DamageHook(pri, fight, e, c, answer)
           opened == IF d.paid /\ fight.foe[e].state = "shielded" /\ after = "shielded"
                     THEN "open" ELSE after
           finishing == fight.cell[c].what = "finisher" /\ answer # "none"
       IN  /\ pri' = d.p
           /\ verdict' = [verdict EXCEPT !.paid = d.paid]
           /\ fight' = [fight EXCEPT !.foe[e].state = opened,
                                     !.moved = IF after = "gone" THEN @ \cup {e} ELSE @,
                                     !.cell[c].hit = IF finishing THEN @ \cup {e} ELSE @]
           /\ mark' = [mark EXCEPT ![e] = IF after = "gone" THEN NoMark
                                          ELSE IF TrueClass(c) = "none" \/ Forced(fight, e) THEN @
                                          ELSE [priority |-> Ladder[TrueClass(c)], age |-> 0]]
    /\ UNCHANGED arms

-----------------------------------------------------------------------------
(* External: enemies, shots and stages.  An enemy moves once in a frame. *)

FoeGoes(e, kind, state) ==
    /\ step = "guest" /\ e \notin fight.moved
    /\ state = "shielded" => kind = "armadillo"
    /\ kind # fight.foe[e].kind => fight.foe[e].state = "gone" \/ state = "open"
    /\ fight' = [fight EXCEPT !.foe[e] = [kind |-> kind, state |-> state], !.moved = @ \cup {e}]
    /\ mark' = IF kind # fight.foe[e].kind \/ state \in {"gone", "forced"} \/ ~FoeLives(fight, e)
               THEN [mark EXCEPT ![e] = NoMark] ELSE mark
    /\ verdict' = NoVerdict /\ UNCHANGED <<pri, step, struck, arms>>

CellEnds(c) ==
    /\ step = "guest" /\ CellLives(fight, c)
    /\ fight' = [fight EXCEPT !.cell[c] = EmptyCell]
    /\ verdict' = NoVerdict /\ UNCHANGED <<pri, step, struck, mark, arms>>

FrameOver ==
    /\ step = "guest" /\ step' = "frame" /\ verdict' = NoVerdict
    /\ UNCHANGED <<fight, pri, struck, mark, arms>>

\* A stage has been played, so the hook in front of the player has seen it,
\* before the next one begins.
Advances(level) ==
    /\ step = "frame" /\ Uses("stage") /\ level # fight.level
    /\ pri.valid => pri.stage = fight.level
    /\ fight' = [fight EXCEPT !.level = level, !.foe = [e \in Targets |-> [@[e] EXCEPT !.state = "open"]],
                              !.cell = [c \in Cells |-> EmptyCell]]
    /\ mark' = [e \in Targets |-> NoMark]
    /\ UNCHANGED <<pri, step, struck, verdict, arms>>

\* Another form of Zero was chosen, or a state was reset.
PriorityReset ==
    /\ step = "frame" /\ Uses("stage")
    /\ pri' = NoRecords /\ mark' = [e \in Targets |-> NoMark]
    /\ fight' = [fight EXCEPT !.cell = [c \in Cells |-> [@[c] EXCEPT !.born = "none"]]]
    /\ UNCHANGED <<step, struck, verdict, arms>>

Given(w, S, idle) == IF Uses(w) THEN S ELSE {idle}
Bursts == Given("burst", 0 .. 2, 0)
Swings == {[kind |-> "none", active |-> FALSE]}
          \cup [kind : {k \in SwingClasses : Uses(k)}, active : BOOLEAN]
Makings == {"free"} \cup {t \in {"small", "full", "pellet", "swing", "wave", "finisher"} :
                           Uses(t) \/ (t = "swing" /\ \E k \in SwingClasses : Uses(k))}

PriorityNext ==
    \/ PriorityPre
    \/ \E out \in SUBSET Cells, c \in Cells \cup {0}, what \in Makings, emission, burst \in Bursts,
          swing \in Swings, context \in Given("away", BOOLEAN, TRUE) : Plays(out, c, what, emission, burst, swing, context)
    \/ \E e \in Targets, c \in Cells, answer \in {"hit", "none", "reflected", "guarded"} :
          \/ Responds(e, c, answer)
          \/ \E after \in {"open", "safe", "shielded", "forced", "gone"} : Hits(e, c, answer, after)
    \/ StrikeDropped
    \/ \E e \in Targets, kind \in Given("kinds", FoeKinds, "plain"), state \in {"open", "safe", "shielded", "forced", "gone"} :
          FoeGoes(e, kind, state)
    \/ \E c \in Cells : CellEnds(c)
    \/ FrameOver \/ \E level \in Levels : Advances(level)
    \/ PriorityReset

PrioritySpec == PriorityInit /\ [][PriorityNext]_priVars

-----------------------------------------------------------------------------
\* A hit breaks an enemy's invincibility exactly when a weaker hit was
\* accepted on the same enemy within the window, whatever slots were reused
\* since; and who is admitted is paid, nobody else.
FollowUpsJudged ==
    /\ verdict.granted = verdict.earned
    /\ verdict.paid => verdict.granted
==============================================================================

----------------------------- MODULE HostServices -----------------------------
(***************************************************************************)
(* The small machines that share no state with each other: the files, the  *)
(* music, the mod selection and the recorder of the host, the shots of the *)
(* imported weapons, the armor and the two hunters, the priorities of      *)
(* Saber's hits, and the shuffled queue of the boss rush on its own.  A    *)
(* behavior moves one of them, the others stay where they start.           *)
(***************************************************************************)
EXTENDS PasswordFile, ScoreFile, Msu1Music, ModPlan, Replay, WeaponShots, HunterParts,
        SaberPriority, MCBossQueue, TaskFibers

VARIABLE focus
bossVars == <<qvars, waits>>
hostVars == <<passwordVars, scoreVars, musicVars, planVars, replayVars, shotVars,
              partVars, priVars, bossVars, fiberVars, focus>>

\* Where the tasks of the checked instance yield, and for how long.
TaskProgram == [boot |-> {[at |-> 1, wait |-> 0], [at |-> Site, wait |-> 1]},
                play |-> {[at |-> 1, wait |-> 2]}, scratch |-> {}]

\* The default ladder of priorities with its gaps closed.
ShortLadder == [slash |-> 2, dash |-> 3, small |-> 1, full |-> 1, max1 |-> 2, max2 |-> 3,
                finisher |-> 2, wave |-> 3]

\* The queue while another machine moves: each seat has its boss.
BothInPlay ==
    /\ queue = <<>> /\ waits = [b \in Bosses |-> 0]
    /\ LET b == CHOOSE x \in Bosses : TRUE
           c == CHOOSE x \in Bosses \ {b} : TRUE
       IN  onStage = <<b, c>>

Init ==
    /\ focus \in {"password", "score", "music", "plan", "replay", "weapons", "parts", "priority",
                 "queue", "tasks"}
    /\ PasswordInit /\ (focus # "password" => main = Missing)
    /\ ScoreInit /\ (focus # "score" => file = 0)
    /\ MusicInit /\ (focus # "music" => driven)
    /\ PlanInit
    /\ focus # "plan" =>
          installed = {} /\ plan.layout = "split" /\ plan.cameras = "unified"
    /\ ReplayInit
    /\ ShotsInit /\ (focus # "weapons" => weapon = "buster")
    /\ PartsInit /\ (focus # "parts" => wants = {} /\ hunters.game = 2 /\ Active(hunters) = "x")
    /\ PriorityInit /\ fight.level = CHOOSE x \in Levels : TRUE
    /\ focus # "priority" => arms = {}
    /\ IF focus = "queue" THEN MCInit ELSE BothInPlay
    /\ FibersInit /\ (focus # "tasks" => stateFile = NoFile)

Next ==
    \/ /\ focus = "password" /\ PasswordNext
       /\ UNCHANGED <<scoreVars, musicVars, planVars, replayVars, shotVars,
                      partVars, priVars, bossVars, fiberVars, focus>>
    \/ /\ focus = "score" /\ ScoreNext
       /\ UNCHANGED <<passwordVars, musicVars, planVars, replayVars, shotVars,
                      partVars, priVars, bossVars, fiberVars, focus>>
    \/ /\ focus = "music" /\ MusicNext
       /\ UNCHANGED <<passwordVars, scoreVars, planVars, replayVars, shotVars,
                      partVars, priVars, bossVars, fiberVars, focus>>
    \/ /\ focus = "plan" /\ PlanNext
       /\ UNCHANGED <<passwordVars, scoreVars, musicVars, replayVars, shotVars,
                      partVars, priVars, bossVars, fiberVars, focus>>
    \/ /\ focus = "replay" /\ ReplayNext
       /\ UNCHANGED <<passwordVars, scoreVars, musicVars, planVars, shotVars,
                      partVars, priVars, bossVars, fiberVars, focus>>
    \/ /\ focus = "weapons" /\ ShotsNext
       /\ UNCHANGED <<passwordVars, scoreVars, musicVars, planVars, replayVars,
                      partVars, priVars, bossVars, fiberVars, focus>>
    \/ /\ focus = "parts" /\ PartsNext
       /\ UNCHANGED <<passwordVars, scoreVars, musicVars, planVars, replayVars,
                      shotVars, priVars, bossVars, fiberVars, focus>>
    \/ /\ focus = "priority" /\ PriorityNext
       /\ UNCHANGED <<passwordVars, scoreVars, musicVars, planVars, replayVars,
                      shotVars, partVars, bossVars, fiberVars, focus>>
    \/ /\ focus = "queue" /\ MCNext
       /\ UNCHANGED <<passwordVars, scoreVars, musicVars, planVars, replayVars,
                      shotVars, partVars, priVars, fiberVars, focus>>
    \/ /\ focus = "tasks" /\ FibersNext
       /\ UNCHANGED <<passwordVars, scoreVars, musicVars, planVars, replayVars,
                      shotVars, partVars, priVars, bossVars, focus>>

\* While the weapons are played the frame loop goes on.
Spec == Init /\ [][Next]_hostVars /\ WF_phase(focus = "weapons" /\ FrameGoesOn)
===============================================================================

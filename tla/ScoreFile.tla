------------------------------ MODULE ScoreFile ------------------------------
(***************************************************************************)
(* The high score of the boss rush (src/mmx_boss_rush_score.cpp): memory   *)
(* is updated first, the file through a temporary file and without a       *)
(* backup.  A finished run may be rewound and finished again with another  *)
(* result: the file does not follow.                                       *)
(***************************************************************************)
EXTENDS Naturals

CONSTANTS
    MaxDefeats,              \* bound: the largest result of a run
    ForeignScore, TornScore  \* an unrecognised file, a half written one

ASSUME ScoreAssumption == MaxDefeats \in Nat

VARIABLES
    file, draft, \* a number (0 also for no file), ForeignScore or TornScore
    best, writable,  \* MmxBossRushHighScore, and whether it may be saved
    at,              \* "closed", "open", or the step of the write to come
    saving, recorded \* history: the score to come, the best one stored

scoreVars == <<file, draft, best, writable, at, saving, recorded>>

Scores == 0..MaxDefeats
ScoreInit ==
    /\ file \in {ForeignScore} \cup Scores
    /\ draft = 0 /\ best = 0 /\ writable = FALSE
    /\ at = "closed" /\ saving = 0
    /\ recorded = file

(* MmxBossRushScoreOpen, in the first host frame of the process.            *)
ScoreOpen ==
    /\ at = "closed"
    /\ at' = "open"
    /\ writable' = (file # ForeignScore)
    /\ best' = IF file = ForeignScore THEN 0 ELSE file
    /\ UNCHANGED <<file, draft, saving, recorded>>

(* Mutant: a later, lower result is written. *)
ScoreRecordAny(defeated) ==
    /\ at = "open" /\ writable
    /\ best' = defeated /\ at' = "write" /\ saving' = defeated
    /\ UNCHANGED <<file, draft, writable, recorded>>

(* MmxBossRushScoreRecord, in each host frame after a finished run.         *)
ScoreRecord(defeated) ==
    /\ at = "open"
    /\ defeated > best
    /\ best' = defeated
    /\ IF writable THEN at' = "write" /\ saving' = defeated
                   ELSE UNCHANGED <<at, saving>>
    /\ UNCHANGED <<file, draft, writable, recorded>>
ScoreWrite ==
    /\ at = "write"
    /\ draft' \in {saving, TornScore}
    /\ at' = IF draft' = saving THEN "rename" ELSE "refused"
    /\ UNCHANGED <<file, best, writable, saving, recorded>>
ScoreRename ==
    /\ at = "rename"
    /\ file' = draft /\ draft' = 0
    /\ recorded' = IF saving > recorded THEN saving ELSE recorded
    /\ at' = "open"
    /\ UNCHANGED <<best, writable, saving>>
ScoreRefused ==
    /\ at \in {"refused", "rename"}
    /\ writable' = FALSE
    /\ at' = "open"
    /\ UNCHANGED <<file, draft, best, saving, recorded>>

(* The process ends, between any two steps.                                 *)
ScoreCrash ==
    /\ at # "closed"
    /\ at' = "closed" /\ best' = 0 /\ writable' = FALSE /\ saving' = 0
    /\ UNCHANGED <<file, draft, recorded>>

ScoreNext ==
    \/ ScoreOpen
    \/ \E defeated \in Scores : ScoreRecord(defeated)
    \/ ScoreWrite \/ ScoreRename \/ ScoreRefused \/ ScoreCrash

ScoreSpec == ScoreInit /\ [][ScoreNext]_scoreVars

-----------------------------------------------------------------------------
(* Whatever runs are rewound, refused or cut off, the file holds the best   *)
(* score ever stored, whole; it never falls, and a session that may write   *)
(* shows no less than the file.  A file that was not understood is left.    *)
ScoreKept ==
    /\ file = recorded
    /\ writable => file <= best
=============================================================================

------------------------------ MODULE MCBossQueue ------------------------------
(***************************************************************************)
(* BossQueue with a history variable: how many draws each boss has been     *)
(* passed over for while it was off stage.                                  *)
(***************************************************************************)
EXTENDS BossQueue

VARIABLE waits
--------------------------------------------------------------------------------
MCInit == QInit /\ waits = [b \in Bosses |-> 0]

\* A boss that is drawn or on stage starts waiting afresh; every other boss
\* has been passed over by this draw.
MCDraw(s) ==
    /\ Draw(s)
    /\ waits' = [b \in Bosses |->
                    IF b \in Present \/ onStage'[s] = b THEN 0 ELSE waits[b] + 1]

MCNext ==
    \/ Clear /\ waits' = [b \in Bosses |-> 0]
    \/ \E s \in Seats : MCDraw(s)
    \/ \E s \in Seats : Leave(s) /\ UNCHANGED waits

MCSpec == MCInit /\ [][MCNext]_<<qvars, waits>>
--------------------------------------------------------------------------------
\* No boss is starved: while a boss is off stage, fewer than two full rounds
\* of draws pass it over, whatever the shuffles and however long the other
\* seat keeps its boss (the carry-over of MmxBossRushNextBoss).
DrawnWithinTwoRounds == \A b \in Bosses : waits[b] <= 2 * (Cardinality(Bosses) - 1)
================================================================================

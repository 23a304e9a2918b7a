------------------------------- MODULE BossQueue -------------------------------
(***************************************************************************)
(* What the shuffled boss queue promises the encounter: the abstract        *)
(* specification of the draws of a boss rush.  BossRush implements it       *)
(* (DrawsAsPromised).                                                       *)
(***************************************************************************)
EXTENDS BossDraw

VARIABLES queue,    \* the bosses still to be drawn, next first
          onStage   \* the boss each seat holds, or NoBoss

qvars == <<queue, onStage>>
--------------------------------------------------------------------------------
Present == {onStage[s] : s \in Seats} \ {NoBoss}

QInit == queue = <<>> /\ onStage = [s \in Seats |-> NoBoss]

\* An empty seat draws the next boss.
Draw(s) ==
    /\ onStage[s] = NoBoss
    /\ \E n \in NextBoss(queue, Present) :
        /\ n.id # NoBoss
        /\ queue' = n.queue
        /\ onStage' = [onStage EXCEPT ![s] = n.id]

\* The boss of a seat is gone.
Leave(s) ==
    /\ onStage[s] # NoBoss
    /\ onStage' = [onStage EXCEPT ![s] = NoBoss]
    /\ UNCHANGED queue

\* A new run starts, or the run is dropped.
Clear == queue' = <<>> /\ onStage' = [s \in Seats |-> NoBoss]

QNext == Clear \/ \E s \in Seats : Draw(s) \/ Leave(s)

QSpec == QInit /\ [][QNext]_qvars

\* What the encounter does beyond that: the drawn boss is refused its object
\* (MmxBossRushAssign) and is lost to the rest of the round.
Discard(s) ==
    /\ onStage[s] = NoBoss
    /\ queue' \in {n.queue : n \in NextBoss(queue, Present)}
    /\ UNCHANGED onStage

QLossySpec == QInit /\ [][QNext \/ \E s \in Seats : Discard(s)]_qvars
--------------------------------------------------------------------------------
\* The queue of a run never holds a boss twice: a boss that is on stage when
\* a round is appended is carried over, not shuffled in again
\* (MmxBossRushNextBoss against the test in MmxBossRushValidState).
QueueDistinct == ValidQueue(queue)

\* The two seats never hold the same boss.
DistinctBosses == onStage[1] = onStage[2] => onStage[1] = NoBoss

\* A seat that is empty can always be filled: MmxBossRushNextBoss never
\* answers -1, however long the other boss survives.
NeverStalls ==
    (\E s \in Seats : onStage[s] = NoBoss)
        => \A n \in NextBoss(queue, Present) : n.id # NoBoss
================================================================================

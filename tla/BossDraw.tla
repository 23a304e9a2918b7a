-------------------------------- MODULE BossDraw --------------------------------
(***************************************************************************)
(* Which boss a freed seat of a boss rush receives next (mmx_boss_rush.c,   *)
(* MmxBossRushNextBoss).  A boss that is on stage stays in the queue and is *)
(* carried forward; a new shuffled round is appended only when every queued *)
(* boss is on stage.  The xorshift generator that shuffles a round is       *)
(* abstracted to "some order": every order it can produce, and more.        *)
(***************************************************************************)
EXTENDS Integers, Sequences, FiniteSets

CONSTANTS Bosses,   \* boss ids (eight in the program)
          NoBoss    \* no boss: an empty seat, or the -1 of MmxBossRushNextBoss

Seats == {1, 2}

ASSUME BossesAssumption ==
    /\ IsFiniteSet(Bosses)
    /\ Cardinality(Bosses) > 2
    /\ NoBoss \notin Bosses
--------------------------------------------------------------------------------
Queued(q) == {q[k] : k \in DOMAIN q}

\* Positions of the queued bosses that are not on stage.
Ready(q, present) == {k \in DOMAIN q : q[k] \notin present}

\* The memmove that closes the gap left by the k-th entry.
Without(q, k) == [j \in 1..(Len(q) - 1) |-> IF j < k THEN q[j] ELSE q[j + 1]]

\* The first queued boss that is not on stage leaves the queue.
Take(q, present) ==
    IF Ready(q, present) = {} THEN [id |-> NoBoss, queue |-> q]
    ELSE LET k == CHOOSE k \in Ready(q, present) :
                    \A j \in Ready(q, present) : k <= j
         IN  [id |-> q[k], queue |-> Without(q, k)]

\* A shuffled round: every boss that is not carried over, in any order.
Rounds(q) ==
    LET fresh == Bosses \ Queued(q)
    IN  {r \in [1..Cardinality(fresh) -> fresh] :
            \A i, j \in DOMAIN r : r[i] = r[j] => i = j}

NextBossReshuffles(q, present) == {Take(r, present) : r \in Rounds(<<>>)}

\* What MmxBossRushNextBoss may return and leave behind.
NextBoss(q, present) ==
    IF Ready(q, present) # {} THEN {Take(q, present)}
    ELSE {Take(q \o r, present) : r \in Rounds(q)}

\* The queue part of MmxBossRushValidState: known bosses, none twice.
ValidQueue(q) ==
    /\ \A k \in DOMAIN q : q[k] \in Bosses
    /\ \A j, k \in DOMAIN q : q[j] = q[k] => j = k
================================================================================

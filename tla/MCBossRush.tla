------------------------------- MODULE MCBossRush -------------------------------
EXTENDS BossRush, TLC

BossSymmetry == Permutations(Bosses)

\* A run in which the host has written slots behind a pending call is followed
\* until that call returns or its next frame ends.
OneGap == touched = {} \/ (actor # Nobody /\ pc \notin {"after", "frame"})

\* "Unavailable bosses carry into the next shuffle": a boss leaves the queue
\* only to enter.
DrawnBossEnters == [][mode' = mode /\ queue' # queue => generation' # generation]_vars
================================================================================

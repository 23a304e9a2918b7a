------------------------------ MODULE MCSaberSlash ------------------------------
EXTENDS SaberSlash, TLC

StageSymmetry == Permutations(Stages)

T(startup, active, total) == [startup |-> startup, active |-> active, total |-> total]
ShortTiming == [ground1 |-> T(0, 2, 3), ground2 |-> T(0, 1, 2),
                air |-> T(1, 1, 2), wall |-> T(2, 1, 3), dash |-> T(1, 1, 2)]
================================================================================

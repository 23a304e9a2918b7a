SPECIFICATION Spec
SYMMETRY BossSymmetry
CONSTANTS
    Bosses = {b1, b2, b3}
    NoBoss = NoBoss
    EnemySlots = {1, 2}
    ShotSlots = {}
    ItemSlots = {4}
    EffectSlots = {}
    NoSlot = NoSlot
    Players = {p1}
    CleanupTicks = 1
    CounterMax = 1
    Slow = {}
    BodyVanishes = FALSE
    Borrowers = {}
PROPERTIES
    DrawnBossEnters

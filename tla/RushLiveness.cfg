SPECIFICATION FairSpec
CONSTANTS
    Bosses = {b1, b2, b3}
    NoBoss = NoBoss
    EnemySlots = {1}
    ShotSlots = {3}
    ItemSlots = {4}
    EffectSlots = {}
    NoSlot = NoSlot
    Players = {p1}
    CleanupTicks = 2
    CounterMax = 1
    Slow = {}
    BodyVanishes = TRUE
    Borrowers = {}
PROPERTIES
    DyingCleared
    DeathsFinish

SPECIFICATION Spec
SYMMETRY BossSymmetry
CONSTRAINT OneGap
CONSTANTS
    Bosses = {b1, b2, b3}
    NoBoss = NoBoss
    EnemySlots = {1, 2}
    ShotSlots = {}
    ItemSlots = {4}
    EffectSlots = {}
    NoSlot = NoSlot
    Players = {p1}
    CleanupTicks = 2
    CounterMax = 2
    Slow = {1, 2}
    BodyVanishes = FALSE
    Borrowers = {1}
INVARIANTS
    ValidState
    DefeatsSettled
    GlobalsIsolated
    TradeKillsCount
    OwnershipFaithful
PROPERTIES
    DrawsAsPromised

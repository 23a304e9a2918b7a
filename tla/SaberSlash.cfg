\* Swings, finishers, waves and bursts on two projectile slots.
SPECIFICATION Spec
SYMMETRY StageSymmetry
CONSTANTS
    Slots = {1, 2}
    Enemies = {1}
    Stages = {s1, s2}
    Timing <- ShortTiming
    ChargeFull = 2
    ChargeCap = 2
    WindowFrames = 1
    SlashWave = 2
    SlashEnd = 3
    Lifetime = 3
    PulseFrames = 1
    MaxPulses = 2
    Actions = {"stand", "air", "wall", "dash", "hurt", "dying", "away"}
    Loads = FALSE
    SwitchInSlash = FALSE
    MaxShots = 1
INVARIANTS
    SlotsAccounted
    SwingFitsBody
PROPERTIES
    SwingSurvives
    SwingLeavesCharge

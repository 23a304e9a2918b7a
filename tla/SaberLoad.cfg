\* A state is saved in the middle of a swing and loaded.
SPECIFICATION Spec
SYMMETRY StageSymmetry
CONSTANTS
    Slots = {1, 2}
    Enemies = {1}
    Stages = {s1, s2}
    Timing <- ShortTiming
    ChargeFull = 2
    ChargeCap = 2
    WindowFrames = 1
    SlashWave = 2
    SlashEnd = 3
    Lifetime = 2
    PulseFrames = 1
    MaxPulses = 2
    Actions = {"stand"}
    MaxShots = 1
    Loads = TRUE
    SwitchInSlash = FALSE
PROPERTIES SwingSurvives

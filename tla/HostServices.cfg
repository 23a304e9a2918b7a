\* Every service of the host on its own, small files, songs and segments.
SPECIFICATION Spec
CONSTANTS
    Bosses = {b1, b2, b3, b4}
    NoBoss = NoBoss
    Passwords = {p1, p2, p3}
    Blank = blank
    Foreign = foreign
    Torn = torn
    Missing = missing
    MaxDefeats = 3
    ForeignScore = foreignScore
    TornScore = tornScore
    Songs = {stage, jingle, lost}
    Absent = {lost}
    Looping = {stage}
    NoSong = noSong
    FullVolume = 80
    DuckVolume = 32
    FadeStep = 1
    Fixed = {"16:9", "21:9"}
    Adaptive = "adaptive"
    RoomAspect = "16:9"
    NoValue = "none"
    SegmentFrames = 2
    Segments = 3
    HistoryLimit = 4
    StateLimit = 3
    SnapshotLimit = 2
    MaxFrame = 3
    MaxLoads = 1
    MaxSegment = 5
    Weapons = {"crystal", "bomb", "well", "chain", "bubble", "silk", "mine", "burner",
               "wheel", "slicer", "acid", "ray", "frost", "fang", "thunder", "blade"}
    SlotCount = 3
    EnemyCount = 2
    EffectCount = 2
    SmallKinds = {"drone"}
    LargeKinds = {"tank"}
    Quadrants = 2
    PayloadLife = 1
    PullLife = 3
    FieldLife = 3
    VictimLife = 2
    TimeOnset = 2
    TimeLife = 6
    MaxRenewals = 1
    MaxEvents = 1
    MaxHealth = 2
    MorphFrames = 2
    ExchangeFrames = 2
    Column = 2
    AirDashFrames = 2
    ShotSlots = 2
    DashFrames = 2
    RestFrames = 2
    GigaHold = 2
    GigaEnd = 4
    BarrierFrames = 2
    HealFrames = 2
    FullMeter = 1
    PartWants = {{}, {"fire", "charge", "x2"}, {"fire", "weapons", "contacts"},
                 {"fire", "gold", "crash", "x3"}, {"exchange", "crash", "hits", "x2"},
                 {"fire", "exchange"}, {"dash", "modern", "low"}, {"jump", "modern", "low"},
                 {"exchange", "keys", "scenes"}, {"jump", "dash", "gold", "x3"},
                 {"dash", "hits", "x3"}}
    Targets = {1}
    FoeKinds = {"plain", "armadillo"}
    Cells = {1, 2}
    Levels = {here, next}
    Ladder <- ShortLadder
    Window = 1
    Generations = 1
    Arms = {{}, {"full", "burst"}, {"slash", "dash", "kinds"}, {"wave", "finisher"},
            {"small", "pellet", "away"}, {"small", "wave", "stage"}}
    LaneCount = 2
    Tasks = {"boot", "play"}
    BootTask = "boot"
    Scratch = "scratch"
    Yields <- TaskProgram
INVARIANTS
    PasswordKept
    ScoreKept
    MusicHeard
    RoomReady
    KeptSegmentsPlay
    DrawnWithinTwoRounds
    HeldApart
    ShotsAccounted
    PoolsKept
    PartsGiveBack
    FollowUpsJudged
    RunsOwn
PROPERTIES
    HoldsEnd
    TasksAsPromised

\* P2 is a learner, and plays X.
SPECIFICATION Spec
CONSTANTS
    Learner = TRUE
    Views = FALSE
    XSeat = 1
    MaxHp = 2
    MaxLives = 0
    HoldFrames = 1
    AwayFrames = 2
    Buttons = {0, 1}
    World = {"contact", "terrain", "pit", "drain", "script", "low", "farewell", "refill", "lift"}
INVARIANTS LearnerNeverDies

\* X joins or withdraws beside an unentered capsule.
SPECIFICATION FairSpec
CONSTANTS
    Learner = FALSE
    Views = FALSE
    XSeat = 1
    MaxHp = 1
    MaxLives = 0
    HoldFrames = 1
    AwayFrames = 1
    Buttons = {0, 1}
    World = {"capsule"}
PROPERTIES GuestRuns

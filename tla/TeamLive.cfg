\* One camera, with the driver hurt in scenes: safety and progress.
SPECIFICATION FairSpec
CONSTANTS
    Learner = FALSE
    Views = FALSE
    XSeat = 1
    MaxHp = 1
    MaxLives = 1
    HoldFrames = 1
    AwayFrames = 1
    Buttons = {0, 1}
    World = {"contact", "pit", "low", "script", "sceneHits", "stop"}
INVARIANTS TeamMode
PROPERTIES HiddenUntouched TeamPlaysOn GuestRuns

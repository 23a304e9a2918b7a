\* Deaths, withdrawals and spare lives of two players with own cameras.
SPECIFICATION Spec
CONSTANTS
    Learner = FALSE
    Views = TRUE
    XSeat = 1
    MaxHp = 2
    MaxLives = 1
    HoldFrames = 2
    AwayFrames = 1
    Buttons = {0, 1}
    World = {"contact", "terrain", "pit", "life", "boss", "capsule", "menu", "refill", "stop"}
INVARIANTS WorldActorLives NeverEmptyStage

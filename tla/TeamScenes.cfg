\* Scripted scenes, doors, a ride armor; the next stage.
SPECIFICATION Spec
CONSTANTS
    Learner = FALSE
    Views = TRUE
    XSeat = 1
    MaxHp = 1
    MaxLives = 0
    HoldFrames = 1
    AwayFrames = 1
    Buttons = {0, 1}
    World = {"contact", "pit", "door", "script", "hold", "armor", "farewell", "clear", "stop"}
INVARIANTS PilotDrives
PROPERTIES EntryRebuildsP1 DyingFinishes

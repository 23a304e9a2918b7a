\* Every group of routines that meet, shared and own cameras.
SPECIFICATION PassesSpec
CONSTANTS
    Cameras = {FALSE, TRUE}
    Learners = {FALSE, TRUE}
    Casts = {{"controller", "object", "shots", "fighter", "armor", "door"}, {"controller", "item", "chaser"}, {"controller", "solid", "platform"}, {"controller", "slime", "eagle"}, {"controller", "sensor", "turret"}}
INVARIANTS
    BodiesKept
    DriverProjected
    ClaimsHonoured
PROPERTIES
    EveryoneAsked

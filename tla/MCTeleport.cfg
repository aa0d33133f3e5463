SPECIFICATION FairSpec
CONSTANTS
    p1 = p1
    p2 = p2
    p3 = p3
    Players <- ThreePlayers
    Modulus = 16
    MaxTick = 3
    MaxTimeouts = 3
    Timeout = 2
    OtherDelays = {1}
    ScriptsClear = FALSE
INVARIANTS
    NoDanglingPlayer
    PendingIffArmed
    TimersValid
PROPERTIES
    Resolved

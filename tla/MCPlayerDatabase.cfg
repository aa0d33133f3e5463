SPECIFICATION MCSpec
CONSTANTS
    MaxSkew = 1
    Addresses = {1, 2}
    NotANumber = "nan"
    NListeners = 2
    Identities <- Colliding
    MayThrow = {1, 2}
    SqlMayFail = TRUE
INVARIANTS
    EntriesOwned
    NoStaleListener
    AnnouncedOrLeaving
    SmoothIsCurrent
PROPERTIES
    AuxStaysOwn
CHECK_DEADLOCK FALSE

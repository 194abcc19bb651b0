SPECIFICATION Spec
CONSTANTS
    None = None
    Broadcasts <- SundayBroadcasts
    Capacity = 8
    Retained = 2
    MaxLost = 0
INVARIANTS CnavEphemerisTimes
CHECK_DEADLOCK FALSE

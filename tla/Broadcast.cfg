SPECIFICATION Spec
CONSTANTS
    None = None
    Broadcasts <- MCBroadcasts
    Capacity = 8
    Retained = 2
    MaxLost = 3
INVARIANTS AssembledWhole EphemerisTimes TwoCyclesSuffice CorrectionsRefer HealthVeto
PROPERTIES SnapshotExact PastAnswers
CHECK_DEADLOCK FALSE

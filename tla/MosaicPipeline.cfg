SPECIFICATION FairSpec
CONSTANTS
    MaxFiles = 3
    Slots = 1
    LimitModes = {TRUE, FALSE}
INVARIANTS AdmissionSafe Drained
PROPERTIES Ends

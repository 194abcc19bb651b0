SPECIFICATION Spec
CONSTANTS
    MaxRev = 2
    Size <- EqualSizes
    Destinations = {1, 2}
    Limited = TRUE
    Faults = {}
    MaxCrashes = 1
    MaxFailures = 1
    MaxIncidents = 1
INVARIANTS TypeOK RecordTruthful
PROPERTIES VerifiedRawKept EvictionDelivered NoRefetch

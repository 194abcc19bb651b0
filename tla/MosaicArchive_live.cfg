SPECIFICATION FairSpec
CONSTANTS
    MaxRev = 2
    Size <- Grows
    Destinations = {1}
    Limited = TRUE
    Faults = {"unlink", "place"}
    MaxCrashes = 1
    MaxFailures = 1
    MaxIncidents = 1
PROPERTIES Settles

SPECIFICATION UploadFairSpec
CONSTANTS
    MaxRev = 3
    Size <- Shrinking
    StrangerSizes = {1, 2}
    RestModes = {TRUE, FALSE}
    MaxDays = 1
    MaxDamages = 2
    MaxFailures = 2
    MaxCrashes = 1
INVARIANTS PublishedWhole
PROPERTIES ImplementsDelivery SentOnce Delivers
CHECK_DEADLOCK FALSE

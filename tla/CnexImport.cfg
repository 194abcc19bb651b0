SPECIFICATION FairSpec
CONSTANTS
    Catalogs <- CatalogsDef
    Rows <- RowsDef
    CursorDay <- CursorDef
    SafeDay <- SafeDef
    PoolSize = 2
    None = None
    MaxRuns = 3
    MaxCrashes = 1
    MaxFailures = 1
INVARIANTS StateHolds ObservationsOnce NeverClosedBusy
PROPERTY Ends
CHECK_DEADLOCK FALSE

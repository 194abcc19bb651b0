SPECIFICATION Spec
CONSTANTS
    Sealed <- MCSealed
    MaxLine = 4096
    Meaning <- MCMeaning
    Inputs <- MCInputs
    Limit = 5
    MaxDiskErrors = 1
    Day = 10
    Week = 70
    MaxInterval = 3
    MaxBreaks = 1
    Chunks = {1, 7, 60}
INVARIANTS ChunksInvisible FilesAreStream EndsWhole
PROPERTIES LoggerEnds
CHECK_DEADLOCK FALSE

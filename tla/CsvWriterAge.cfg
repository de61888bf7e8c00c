\* Rotation by age, crashes and restarts in append mode, failing rotations; the
\* buffer holds a whole batch, so that no crash leaves half a line.
SPECIFICATION Spec
CONSTANTS
    Append_ = TRUE
    MaxSize = 0
    MaxAge = 1
    BatchSize = 2
    BatchTime = 2
    BufCap = 12
    MaxRecords = 3
    MaxTime = 3
    Faults = {"rename", "create", "crash"}
    NoFile = NoFile
INVARIANTS
    RecordsKept
    CrashLosesLessThanBatch
PROPERTIES
    FilesSurvive
    LogSpec

\* Size and age rotation, a buffer that tears lines, failing system calls, a
\* clock that is set back, restarts; the last flush of a process may fail.
SPECIFICATION Spec
CONSTANTS
    Append_ = TRUE
    MaxSize = 4
    MaxAge = 1
    BatchSize = 2
    BatchTime = 1
    BufCap = 3
    MaxRecords = 3
    MaxTime = 1
    Faults = {"flush", "rename", "create", "drop", "clock"}
    NoFile = NoFile

    
PROPERTIES
    StuckAfterFailedCreate

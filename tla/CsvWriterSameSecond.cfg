\* Size rotation, nothing fails: two rotations within one second.
SPECIFICATION Spec
CONSTANTS
    Append_ = TRUE
    MaxSize = 4
    MaxAge = 0
    BatchSize = 1
    BatchTime = 2
    BufCap = 12
    MaxRecords = 4
    MaxTime = 1
    Faults = {}
    NoFile = NoFile
INVARIANTS
    RecordsKept

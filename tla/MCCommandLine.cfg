CONSTANTS
    Process = {1, 2}
    MaxRuns = 3
SPECIFICATION Spec
INVARIANTS
    FilesIntact
    SavedIsKept
    GrantsKept
CHECK_DEADLOCK FALSE

SPECIFICATION Spec
CONSTANTS
    NULL = NULL
    Clients = {c1, c2}
    RowIds = {1, 2, 3}
    NewJobs <- Requests
    StrLen <- Lengths
    MaxDelay = 3
    MaxCalls = 2
SYMMETRY ClientSymmetry
INVARIANTS TypeOK OneJobPerKey CreatedOnce NeverRefused
PROPERTY ImplementsIdempotentSubmit
CHECK_DEADLOCK FALSE

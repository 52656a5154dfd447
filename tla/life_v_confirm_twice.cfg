\* One batch, two workers, two confirm requests.
SPECIFICATION Spec
CONSTANTS
    Batches <- OneBatch
    Workers <- TwoWorkers
    Confirmers <- DoubleConfirm
    Cancellers <- NoRequests
    Target <- TargetOf
    UserOf <- UsersOf
    Creator = "alice"
    MaxChunks = 1
    MaxFailures = 0
INVARIANTS
    OneExecutor
CHECK_DEADLOCK FALSE

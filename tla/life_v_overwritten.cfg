\* One batch, one worker, one confirm request and one cancel request.
SPECIFICATION Spec
CONSTANTS
    Batches <- OneBatch
    Workers <- OneWorker
    Confirmers <- OneConfirmer
    Cancellers <- OneCanceller
    Target <- TargetOf
    UserOf <- UsersOf
    Creator = "alice"
    MaxChunks = 1
    MaxFailures = 0
PROPERTIES
    FirstEndingStands
CHECK_DEADLOCK FALSE

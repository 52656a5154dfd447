\* One batch, one worker, one confirm request and one crash.
SPECIFICATION FairSpec
CONSTANTS
    Batches <- OneBatch
    Workers <- OneWorker
    Confirmers <- OneConfirmer
    Cancellers <- NoRequests
    Target <- TargetOf
    UserOf <- UsersOf
    Creator = "alice"
    MaxChunks = 1
    MaxFailures = 1
PROPERTIES
    QueuedRecovers
CHECK_DEADLOCK FALSE

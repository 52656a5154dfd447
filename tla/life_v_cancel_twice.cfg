\* One batch, one worker, one confirm request and two cancel requests.
SPECIFICATION FairSpec
CONSTANTS
    Batches <- OneBatch
    Workers <- OneWorker
    Confirmers <- OneConfirmer
    Cancellers <- DoubleCancel
    Target <- TargetOf
    UserOf <- UsersOf
    Creator = "alice"
    MaxChunks = 1
    MaxFailures = 0
PROPERTIES
    CancellationEnds
CHECK_DEADLOCK FALSE

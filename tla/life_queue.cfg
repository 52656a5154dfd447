\* Two batches, one cancelled, two workers, one failure anywhere.
SPECIFICATION FairSpec
CONSTANTS
    Batches <- TwoBatches
    Workers <- TwoWorkers
    Confirmers <- TwoConfirmers
    Cancellers <- OneCanceller
    Target <- TargetOf
    UserOf <- UsersOf
    Creator = "alice"
    MaxChunks = 1
    MaxFailures = 1
PROPERTIES
    QueuedSettles
CHECK_DEADLOCK FALSE

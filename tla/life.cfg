\* One batch, two confirm requests, a cancel request, two workers, two failures anywhere.
SPECIFICATION FairSpec
CONSTANTS
    Batches <- OneBatch
    Workers <- TwoWorkers
    Confirmers <- DoubleConfirm
    Cancellers <- OneCanceller
    Target <- TargetOf
    UserOf <- UsersOf
    Creator = "alice"
    MaxChunks = 2
    MaxFailures = 2
INVARIANTS
    TypeOK
    PublicationAnnounced
    TerminalAnnounced
    SoleExecutor
    FinalBatchHasFinalResults
    OneVerdict
    SingleRun
PROPERTIES
    QueuedSettles
    SettledForGood
    FollowsGraph
    PublishedFrozen
    PublishesOnce
CHECK_DEADLOCK FALSE

\* The listings change up to twice during the run.
SPECIFICATION Spec
CONSTANTS
    Orders <- FiveOrders
    Catalogue <- NewestFirst
    OrderNum <- NumOf
    OutTradeNo <- TradeOf
    Amount <- AmountOf
    Channel <- ChannelOf
    Identified <- WithId
    Queried <- NotLate
    InWindow <- PaidInTime
    Channels <- TwoChannels
    Payments <- ThreePayments
    MerchantNo <- MerchantOf
    PlatformNo <- PlatformOf
    Paid <- PaidOf
    Due <- DueOf
    NoNumber = "-"
    PageSize = 2
    MaxMoves = 2
INVARIANTS
    TypeOK
    MatchHasWitness
    StillRemoteSaysSo
    TroubleIsNotMissing
PROPERTIES
    MissingIsAbsent
CHECK_DEADLOCK FALSE

\* A channel is selected twice, and the remote system stands still.
SPECIFICATION Spec
CONSTANTS
    Orders <- FiveOrders
    Catalogue <- NewestFirst
    OrderNum <- NumOf
    OutTradeNo <- TradeOf
    Amount <- AmountOf
    Channel <- ChannelOf
    Identified <- WithId
    Queried <- NotLate
    InWindow <- PaidInTime
    Channels <- OneTwice
    Payments <- ThreePayments
    MerchantNo <- MerchantOf
    PlatformNo <- PlatformOf
    Paid <- PaidOf
    Due <- DueOf
    NoNumber = "-"
    PageSize = 2
    MaxMoves = 0
INVARIANT StillRemoteSaysSo
CHECK_DEADLOCK FALSE

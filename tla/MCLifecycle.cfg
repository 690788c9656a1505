SPECIFICATION LifecycleSpec
CONSTANTS
    MaxUint = 1000000
    None = none
    fan = fan
    op = op
    b1 = b1
    b2 = b2
    k1 = k1
    k2 = k2
    Users = {fan, op}
    Fans = {fan}
    Backers = {op}
    StartTime = 10
    MaxTime = 11
    Matches = {1}
    Markets = {1}
    Templates = {t}
    Agents = {1, 2}
    PerformanceFeeBps = 5000
    MaxMarketExposureBps = 10000
    WithdrawalCooldownSeconds = 1
    VirtualShares = 1
    Wad = 10
    Signers = {k1, k2}
    Owner = owner
    MaxBets = 2
    SignedQuotes <- LifecycleQuotes
    MaxFills = 1
    DelaySeconds = 1
    MinProbBps = 200
    MaxProbBps = 9800
    MinMarginBps = 200
    StakeAmounts = {1, 2}
    MinPayouts = {0, 5}
    DepositAmounts = {2}
    ShareAmounts = {}
    BettingTimes = {1}
    EventTimes = {11}
    MinHarvestFee = 1
    HoldFees = {1}
    MaxGifts = 0
INVARIANTS
    SignersIndexed
    ShownAsSettled
PROPERTIES
    MarketsOnlyAdvance
    SettledBetsPaid
CHECK_DEADLOCK FALSE

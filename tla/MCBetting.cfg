SPECIFICATION MCSpec
CONSTANTS
    MaxUint = 1000000
    None = none
    fan = fan
    backer = backer
    k1 = k1
    k2 = k2
    Users = {fan, backer}
    Fans = {fan}
    Backers = {backer}
    StartTime = 10
    MaxTime = 12
    Matches = {1}
    Markets = {1, 2}
    Templates = {t}
    Agents = {1, 2}
    PerformanceFeeBps = 5000
    MaxMarketExposureBps = 5000
    WithdrawalCooldownSeconds = 1
    VirtualShares = 1
    Wad = 10
    Signers = {k1, k2}
    Owner = owner
    MaxBets = 2
    SignedQuotes <- MCSignedQuotes
    MaxFills = 2
    DelaySeconds = 1
    MinProbBps = 200
    MaxProbBps = 9800
    MinMarginBps = 200
    StakeAmounts = {1, 3}
    MinPayouts = {0}
    DepositAmounts = {2}
    ShareAmounts = {}
    BettingTimes = {2}
    EventTimes = {11}
INVARIANTS
    Solvent
    EscrowBacksBets
    LiabilityBooked
    QuotesWithinSize
    SizedFillsLock
    LateBetsRefunded
PROPERTIES
    KeepsBook
CHECK_DEADLOCK FALSE

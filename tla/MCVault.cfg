SPECIFICATION OneVaultSpec
CONSTANTS
    MaxUint = 1000000
    None = none
    fan = fan
    b1 = b1
    b2 = b2
    op = op
    k1 = k1
    k2 = k2
    Users = {fan, b1, b2, op}
    Fans = {fan}
    Backers = {b1, b2}
    StartTime = 10
    MaxTime = 11
    Matches = {1}
    Markets = {1}
    Templates = {t}
    Agents = {1}
    PerformanceFeeBps = 5000
    MaxMarketExposureBps = 10000
    WithdrawalCooldownSeconds = 1
    VirtualShares = 2
    Wad = 20
    Signers = {k1}
    Owner = owner
    MaxBets = 1
    SignedQuotes <- OneVaultQuotes
    MaxFills = 1
    DelaySeconds = 1
    MinProbBps = 200
    MaxProbBps = 9800
    MinMarginBps = 200
    StakeAmounts = {2}
    MinPayouts = {0}
    DepositAmounts = {1, 2}
    ShareAmounts = {3}
    BettingTimes = {2}
    EventTimes = {}
    MinHarvestFee = 1
    HoldFees = {1}
    MaxGifts = 2
INVARIANTS
    TypeOK
    SharesAddUp
    IndexMirrorsChain
PROPERTIES
    BackersNeverDiluted
    
    FeeWithinGain
CHECK_DEADLOCK FALSE

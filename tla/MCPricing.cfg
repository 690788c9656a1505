SPECIFICATION MCSpec
CONSTANTS
    MaxUint = 1000000
    Weights <- MCWeights
    Amounts = {0, 1, 3, 7, 20}
    Capacities = {0, 1, 2, 5, 20}
    Prices <- MCPrices
    MinProbBps = 200
    MaxProbBps = 9800
    OperatorMargins = {200, 900}
    MinMarginBps = 200
    ExpNeg <- MCExpNeg
    NegLog <- MCNegLog
    Power <- MCPower
    Counts <- MCCounts
    SecondsLeft <- MCSecondsLeft
    Readings <- MCReadings
    Learned <- MCLearned
    Budgets = {3, 20000}
    Speeds = {1, 5}
    SimMatches <- MCSimMatches
    SimAgents <- MCSimAgents
    InitialVault = 100
    MaxExposureBps = 3000
    SimCadence = 300
    SimConcurrent = 4
    CasualStakes = {5, 200}
    SharpStakes = {40}
    SniperStake = 100
    SniperLeads = {3, 15}
    BuyEvery = 10
    Moments = {10, 50, 56, 75, 310, 405, 500, 610, 640, 650}
    MaxArrivals = 3
INVARIANTS
    LadderFillsExactly
    NoSureProfit
    SignedWorkAccepted
    PriceFollowsPlay
    PreviewIsTheBet
    PauseCoversDelay
    SimulatedBooksBalance
CHECK_DEADLOCK FALSE

SPECIFICATION Spec
CONSTANTS
    MaxUint = 1000000
    MinProbBps = 200
    MaxProbBps = 9800
    OperatorMargins = {}
    ExpNeg <- MCExpNeg
    NegLog <- MCNegLog
    Power <- MCPower
    None = None
    Agents = {1}
    Me = 1
    FanSide = "yes"
    Events <- MCEvents
    Prices <- MCPrices
    DelaySeconds = 8
    QuoteExpirySec = 5
    PollSec = 3
    LeadSec = 14
    CooldownSec = 3
    WindowEnds = 40
    ClosesFrom = 8
    Speed = 5
    Budget = 1000
    MaxStakePerQuote = 20
    RelaySweepSec = 5
    Stake = 10
    MaxNow = 9
    MaxBets = 2
    MaxDeals = 1
    HoldsUntil = 2
    AwaitSec = 1
    MineSec = 1
    NudgeAt = {3}
    MaxIncidents = 1
INVARIANTS
    
    SeenIsHonoured

    
CHECK_DEADLOCK FALSE

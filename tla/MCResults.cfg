SPECIFICATION Spec
CONSTANTS
    None = None
    Nobody = Nobody
    Topics = {"account"}
    Markets = {1}
    Outcomes = {"Yes"}
    Stake = 1
    Payout = 2
    MaxBets = 2
    MaxTrail = 3
    MaxFaults = 0
    MaxCopies = 2
    Cooldown = 2
    FullTank = 2
    Consoles = {1}
    FilledSides = {"Yes"}
    MaxCommands = 1
    Splits = {1}
    Purse = 1
    Grant = 1
    MaxSaves = 0
    MaxMishaps = 0
    a1 = a1
    a2 = a2
    Addresses = {a1}
    IpOf <- MCIpOf
    Requests = {1}
    Floor <- MCFloor
    Target <- MCTarget
    IpCap = 60
    DailyCap = 100
    NewAccountsPerIp = 3
    Reserve = 5
    SponsorStart = 100
    Board = {1, 2}
    RecentMarkets = 2
    MaxRuns = 2
    MaxSlips = 1
    Configured = {"LLM", "LLM_FALLBACK"}
    Replies <- MCReplies
    IntervalSec = 2
    MaxAgeSec = 3
    TimeoutSec = 1
    NoteTtlSec = 4
    Notaries <- MCNotaries
    Horizon = 6
    MaxUpsets = 1
    Nothing = Nothing
INVARIANTS
    OneResultPerMarket
CHECK_DEADLOCK FALSE

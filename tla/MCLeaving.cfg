SPECIFICATION Spec
CONSTANTS
    None = None
    Nobody = Nobody
    Topics = {"agent"}
    Markets = {1}
    Outcomes = {"Yes","Void"}
    Stake = 1
    Payout = 2
    MaxBets = 2
    MaxTrail = 2
    MaxFaults = 2
    MaxCopies = 2
    Cooldown = 2
    FullTank = 2
    Consoles = {1, 2}
    FilledSides = {"Yes"}
    MaxCommands = 2
    Splits = {1, 2}
    Purse = 2
    Grant = 2
    MaxSaves = 2
    MaxMishaps = 1
    a1 = a1
    a2 = a2
    Addresses = {a1}
    IpOf <- MCIpOf
    Requests = {1, 2, 3}
    Floor <- MCFloor
    Target <- MCTarget
    IpCap = 60
    DailyCap = 100
    NewAccountsPerIp = 3
    Reserve = 5
    SponsorStart = 100
    Board = {1, 2}
    RecentMarkets = 2
    MaxRuns = 2
    MaxSlips = 0
    Configured = {"LLM", "LLM_FALLBACK"}
    Replies <- MCReplies
    IntervalSec = 2
    MaxAgeSec = 3
    TimeoutSec = 1
    NoteTtlSec = 4
    Notaries <- MCNotaries
    Horizon = 6
    MaxUpsets = 1
    Nothing = Nothing
INVARIANTS
    KeyDiesWithPage
CHECK_DEADLOCK FALSE

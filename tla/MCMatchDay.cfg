SPECIFICATION FairSpec
CONSTANTS
    fixture = fixture
    v1 = v1
    v2 = v2
    Fixtures = {fixture}
    Viewers = {v1, v2}
    Openers = {v1}
    Raw <- MCRaw
    Vendored = {fixture}
    Mirrored = TRUE
    ReplaySpeed = 5
    NoScreen = noScreen
    MaxRuns = 2
    MaxMarkets = 2
    MaxFaults = 1
    CadenceSec = 120
    MaxConcurrent = 4
INVARIANTS
    SettledAsPlayed
    
PROPERTIES
    FullTimeClears
CHECK_DEADLOCK FALSE

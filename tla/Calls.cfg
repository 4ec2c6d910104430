CONSTANTS
    Method = {"Ipv6Direct", "MasqueHttp3"}
    Reason = {"Normal", "Rejected", "Timeout", "FailedNetwork"}
    None = None
    MaxRetries = 3
    MaxAttempts = 3
    Initial = 5
    Multiplier = 3
    MaxResets = 2
    MaxTasks = 6
    NewMembers = 2
    Handlers = {h1, h2}
    Events = {"WifiToCellular", "Ipv6PrefixChange"}
    Timeout = 1
    MaxTime = 3
    Scenes <- MoqScenes
    Window = 3
    Lists <- TunnelLists
    Latency <- TunnelLatency
    Ttl = 1
    MaxClock = 1
    MaxTunnels = 2
SPECIFICATION PartsSpec
INVARIANTS
    PartTypesOK ReasonIffTerminal AttemptsBounded NoStaleRetry BackoffSchedule
    WireKeepsMeaning MigrationHonest MoqHonest  
PROPERTIES TerminalIsFinal 
CHECK_DEADLOCK FALSE

SPECIFICATION SSpec
CONSTANTS
    Workers = {w1, w2}
    Clients = {c1}
    Types = {"a", "b"}
    Requests <- MixedRequests
    Caps = {1}
    Rates <- OneRate
    Delays = {1}
    DefaultTimeout = 1
    RetainTerminal = 2
    Overrun = 0
    Crashes = FALSE
    DBErrors = FALSE
    MaxJobs = 2
    QuietAfter = 2
    LazyUntil = 9
    MaxTime = 5
    w1 = w1
    w2 = w2
    c1 = c1
SYMMETRY Symmetric
PROPERTIES CapHonoured RateHonoured

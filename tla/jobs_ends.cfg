SPECIFICATION FairSpec
CONSTANTS
    Workers = {w1, w2}
    Clients = {c1}
    Types = {"a"}
    Requests <- KeyedRequests
    Caps = {}
    Rates = {}
    Delays = {1}
    DefaultTimeout = 1
    RetainTerminal = 1
    Overrun = 1
    Crashes = TRUE
    DBErrors = TRUE
    MaxJobs = 2
    QuietAfter = 1
    LazyUntil = 4
    MaxTime = 14
    w1 = w1
    w2 = w2
    c1 = c1
INVARIANTS LiveKeysDistinct GivenUpOnlyExhausted
 

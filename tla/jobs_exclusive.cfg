SPECIFICATION Spec
CONSTANTS
    Workers = {w1, w2}
    Clients = {c1, c2}
    Types = {"a"}
    Requests <- KeyedRequests
    Caps = {}
    Rates = {}
    Delays = {1}
    DefaultTimeout = 1
    RetainTerminal = 1
    Overrun = 0
    Crashes = TRUE
    DBErrors = TRUE
    MaxJobs = 2
    QuietAfter = 3
    LazyUntil = 9
    MaxTime = 5
    w1 = w1
    w2 = w2
    c1 = c1
    c2 = c2
SYMMETRY Symmetric
INVARIANTS TypeOK ClaimHeld ExclusiveExecution
PROPERTY OutcomeIsFinal

SPECIFICATION FairSpec
CONSTANTS
    Clients = {a, b}
    Names = {n}
    ReadConns = 1
    MaxExecs = 1
    Habits = {}
    None = None
INVARIANTS OneStorePerName CloseIsClean  ReadsOwnWrites
PROPERTY EveryCallReturns

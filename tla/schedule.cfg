SPECIFICATION FairSpec
CONSTANTS
    Schedules = {"s", "r"}
    Exprs = {"some", "never"}
    Minutes <- MCMinutes
    Horizon = 2
    Touched = {"r"}
    MaxFaults = 1
    MaxTime = 4
INVARIANTS TypeOK  NoneSkipped
PROPERTY DueIsFired

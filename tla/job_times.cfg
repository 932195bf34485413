SPECIFICATION Spec
CONSTANTS
    HourLen = 2
    Hours = 4
    MaxDom = 3
    MaxMonth = 2
    MaxDow = 1
    Calendar <- MCCalendar
    Horizon = 48
    Expressions <- MCExpressions
    Zones <- MCZones
    Starts <- MCStarts
    Bits = 12
    ShiftCap = 4
    Bases = {0, 1, 2, 3, 5, 8, 50, 100, 127}
    Maxes = {0, 1, 3, 40, 300, 2047}
    DefaultBase = 5
    DefaultMax = 60
    MaxAttempts = 15
INVARIANTS ResultIsFirst DelayIsExact
PROPERTY SearchEnds

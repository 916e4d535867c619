SPECIFICATION Spec
CONSTANTS
    k1 = k1
    k2 = k2
    x = x
    None = none
    Keys = {k1, k2}
    Tree = {k1}
    Texts = {x, y}
    Garbled = garbled
    Threads = {t1, t2}
    Files <- MCFiles
    MaxCuts = 1
    Actions = {a1, a2}
    MaxCallCount = 3
    MaxEntries = 2
    MaxDepth = 4
    MaxEdits = 1
    HoursPerDay = 3
    MinutesPerHour = 2
    SecondsPerMinute = 2
    DaysPerWeek = 2
    Holidays <- MCHolidays
    Hourlies <- MCHourlies
    Weeks <- MCWeeks
    Stoppers <- MCStoppers
    MaxLag = 1
    MaxDays = 2
    SpanSec = 1
    RotateSpan = 2
    SavePeriod = 2
    ShortSize = 2
    Values <- MCValues
    MaxStep = 1
    MaxTime = 7
    Rooms = {r1, r2, r3}
    MaxVersion = 2
    MaxChanges = 2
    RoomPair = {r1, r2}
    MaxPairChanges = 4
SYMMETRY Symmetry
INVARIANTS TypeOK SavedIsLoaded    
 
CHECK_DEADLOCK FALSE

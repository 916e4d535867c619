SPECIFICATION Spec
CONSTANTS
    Triggers = {k1}
    Timer = timer
    Workers = {w1, w2}
    MaxIds = 5
    MaxSets = 2
INVARIANTS TypeOK ElecTimerOnce  RepeatKept
CHECK_DEADLOCK FALSE

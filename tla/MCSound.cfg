SPECIFICATION FairSpec
CONSTANTS
    Tasks = {t1, t2}
    NoTask = none
    Scripts = {t1}
    MaxRebuilds = 1
    Songs = {s1, s2, s3}
    Clients = {c1}
    MaxCount = 2
INVARIANTS TypeOK DoneIsPlayed
PROPERTIES ImplementsPlayQueue AllIsPlayed EngineStops
CHECK_DEADLOCK FALSE

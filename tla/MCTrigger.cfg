CONSTANTS
    Callbacks = {c1, c2}
    NoCallback = NoCallback
    Seconds = {1}
    Dates = {2}
    Values = {0}
    Exprs = {}
    BadTime = 1
    MaxClock = 3
    MaxQueue = 2
SPECIFICATION FairSpec
INVARIANTS TypeOK IteratorValid RemovedForGood AtMostOnceAfterRemove NotTooEarly
PROPERTY DateIsFired

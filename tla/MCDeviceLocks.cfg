SPECIFICATION FairSpec
CONSTANT Workers = {w1, w2}
PROPERTY EveryoneReturns
CHECK_DEADLOCK FALSE

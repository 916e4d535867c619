CONSTANTS
    Callbacks = {c1, c2}
    NoCallback = NoCallback
    Seconds = {}
    Dates = {0}
    Values = {0, 1}
    Exprs = {"greater", "lesseq"}
    BadTime = 0
    MaxClock = 1
    MaxQueue = 2
SPECIFICATION Spec
SYMMETRY Symmetry
INVARIANT OneShot
